---------------------------- MODULE Spec2Model ----------------------------
(***************************************************************************)
(* A model of the sharded keyspace engine of the cache server:            *)
(* CommonMaps (one shard: primary map, the two auxiliary indexes, memory  *)
(* accounting, expired sweep and LRU eviction), CommonDataMap (the vector *)
(* of shards of one keyspace), WorkerData (the per-connection wrappers    *)
(* that pick a shard and take its lock), the RESP command handlers of    *)
(* resp_commands.rs that turn the results into reply bytes, the parser of *)
(* resp_parser.rs and the database directory of CommonData.               *)
(*                                                                         *)
(* Four specifications share the definitions:                             *)
(*   Spec      the commands of one connection on its keyspace             *)
(*   SpecWire  the same with requests that arrive as bytes                *)
(*   SpecRace  the same with reads that drop the shared lock of a shard   *)
(*             before they take the exclusive one                         *)
(*   SpecDb    the directory: connections that select, create and load    *)
(*             databases and run key commands on them                     *)
(*                                                                         *)
(* Byte strings are sequences of byte values; time is the number of       *)
(* milliseconds since start_time.  A command reads the clock once or     *)
(* twice; the second read may give a later time than the first.          *)
(***************************************************************************)
EXTENDS Integers, Sequences, FiniteSets, TLC

---------------------------------------------------------------------------
(* Bounds of the model *)

\* the clock runs from 0 to MaxTime
MaxTime == 2
\* TTLs (in ms) given to SET are 1..MaxTtl
MaxTtl == 1
\* length of the string value that does not fit into a shard on its own
BigLen == 45

(* Configuration of the modelled server *)

\* vector_size: shards per keyspace
VectorSize == 1
\* all_memory: the memory budget of one keyspace
AllMemory == 64

None == -1

\* "a", "bb"
Keys == {<<97>>, <<98, 98>>}
\* "x" and a string that is too big for the budget
BigValue == [i \in 1..BigLen |-> 122]
StringValues == {<<120>>, BigValue}
IntValues == {7}
\* hash fields "f", "g" and hash values "x", "yy"
Fields == {<<102>>, <<103>>}
HashValues == {<<120>>, <<121, 121>>}
Times == 0..MaxTime
Ttls == 1..MaxTtl

---------------------------------------------------------------------------
(* value.rs *)

StringValue(v) == [tag |-> "StringValue", s |-> v, i |-> 0, h |-> <<>>]
IntValue(n) == [tag |-> "IntValue", s |-> <<>>, i |-> n, h |-> <<>>]
HashMapValue(m) == [tag |-> "HashMapValue", s |-> <<>>, i |-> 0, h |-> m]

RECURSIVE SumOver(_, _)
SumOver(S, f) ==
    IF S = {} THEN 0
    ELSE LET x == CHOOSE y \in S : TRUE IN f[x] + SumOver(S \ {x}, f)

calculate_map_size(m) ==
    SumOver(DOMAIN m, [k \in DOMAIN m |-> Len(k) + Len(m[k])])

ValueHolder_size(vh) ==
    CASE vh.tag = "IntValue" -> 8
      [] vh.tag = "StringValue" -> Len(vh.s)
      [] vh.tag = "HashMapValue" -> calculate_map_size(vh.h)

\* Value::new / Value::new_int
Value_new(vh, created_at, expiration) ==
    [value |-> vh,
     last_access_time |-> created_at,
     expires_at |-> IF expiration = None THEN None ELSE created_at + expiration]

Value_new_hash(m, created_at) ==
    [value |-> HashMapValue(m), last_access_time |-> created_at, expires_at |-> None]

Value_size(v) == ValueHolder_size(v.value)

\* is_expired with now > e in place of now >= e
is_expired_after(v, t) == v.expires_at # None /\ t > v.expires_at

\* is_expired with the clock read as t
is_expired(v, t) == v.expires_at # None /\ t >= v.expires_at

\* merge with entry(k).or_insert(v) in place of insert(k, v): a field the hash
\* has keeps its value
MergedMap_keeps_existing(a, source) ==
    [k \in DOMAIN a \cup DOMAIN source |-> IF k \in DOMAIN a THEN a[k] ELSE source[k]]

\* the map a after hv.insert(k, v) for every (k, v) of source
MergedMap(a, source) ==
    [k \in DOMAIN a \cup DOMAIN source |->
        IF k \in DOMAIN source THEN source[k] ELSE a[k]]

\* Value::merge on a hash: the merged value and the number of new fields
merge_inserted(v, source) == Cardinality(DOMAIN source \ DOMAIN v.value.h)
merge_value(v, source) ==
    [v EXCEPT !.value = HashMapValue(MergedMap(v.value.h, source))]

\* Value::delete on a hash: the value left and the number of fields removed
delete_deleted(v, fields) == Cardinality(fields \cap DOMAIN v.value.h)
delete_value(v, fields) ==
    [v EXCEPT !.value =
        HashMapValue([k \in DOMAIN v.value.h \ fields |-> v.value.h[k]])]

---------------------------------------------------------------------------
(* resp_encoder.rs *)

RN == <<13, 10>>

RECURSIVE NatDigits(_)
NatDigits(n) ==
    IF n < 10 THEN <<48 + n>> ELSE NatDigits(n \div 10) \o <<48 + (n % 10)>>

\* isize::to_string / usize::to_string
to_string(n) == IF n < 0 THEN <<45>> \o NatDigits(-n) ELSE NatDigits(n)

resp_encode_binary_string(string) ==
    <<36>> \o to_string(Len(string)) \o RN \o string \o RN

resp_encode_int(value) == <<58>> \o to_string(value) \o RN

\* the encoding of a hash: an array of 2k bulk strings, field then value, the
\* fields in the order ord (the iteration order of the HashMap)
resp_encode_map(m, ord) ==
    LET RECURSIVE Pairs(_)
        Pairs(i) ==
            IF i > Len(ord) THEN <<>>
            ELSE resp_encode_binary_string(ord[i])
                   \o resp_encode_binary_string(m[ord[i]]) \o Pairs(i + 1)
    IN <<42>> \o to_string(2 * Len(ord)) \o RN \o Pairs(1)

\* the orders in which the keys of a map may be visited
Orders(S) ==
    {ord \in [1..Cardinality(S) -> S] : \A i, j \in DOMAIN ord : i # j => ord[i] # ord[j]}

---------------------------------------------------------------------------
(* errors.rs, resp_commands.rs, resp_parser.rs: the literal replies *)

\* "$-1\r\n"
NULL_STRING == <<36, 45, 49, 13, 10>>
\* "*-1\r\n"
NULL_ARRAY == <<42, 45, 49, 13, 10>>
\* "+OK\r\n"
OK == <<43, 79, 75, 13, 10>>
\* "-invalid command\r\n"
INVALID_COMMAND_ERROR ==
    <<45, 105, 110, 118, 97, 108, 105, 100, 32, 99, 111, 109, 109, 97, 110, 100, 13, 10>>
\* "-out of memory\r\n"
build_out_of_memory_error ==
    <<45, 111, 117, 116, 32, 111, 102, 32, 109, 101, 109, 111, 114, 121, 13, 10>>
\* "-Operation against a key holding the wrong kind of value\r\n"
build_wrong_data_type_error ==
    <<45, 79, 112, 101, 114, 97, 116, 105, 111, 110, 32, 97, 103, 97, 105, 110, 115,
      116, 32, 97, 32, 107, 101, 121, 32, 104, 111, 108, 100, 105, 110, 103, 32, 116,
      104, 101, 32, 119, 114, 111, 110, 103, 32, 107, 105, 110, 100, 32, 111, 102, 32,
      118, 97, 108, 117, 101, 13, 10>>

---------------------------------------------------------------------------
(* common_maps.rs: one shard.  A shard is a record                          *)
(*   map                the primary map, key -> Value                      *)
(*   current_memory                                                        *)
(*   map_by_time        access time -> set of keys   (AuxMaps)             *)
(*   map_by_expiration  deadline -> set of keys      (AuxMaps)             *)
(*   poisoned           a thread panicked while it held the shard's lock   *)
(* The operators below take a shard and give the shard after the call; a   *)
(* call that panics gives the shard as the unwinding leaves it, poisoned,  *)
(* and every later call of the same operation is skipped.                  *)

max_memory == AllMemory \div VectorSize

build_map ==
    [map |-> <<>>, current_memory |-> 0, map_by_time |-> <<>>,
     map_by_expiration |-> <<>>, poisoned |-> FALSE]

calculate_record_size(key_size, value_size) == 3 * key_size + value_size + 16

Panic(sh) == [sh EXCEPT !.poisoned = TRUE]

Without(f, x) == [y \in DOMAIN f \ {x} |-> f[y]]
With(f, x, v) == [y \in DOMAIN f \cup {x} |-> IF y = x THEN v ELSE f[y]]

\* the bucket map after removing key from bucket t, as both indexes do it:
\* a bucket of one element is dropped whole, whatever the element is
RemoveFromBucket(m, key, t) ==
    IF Cardinality(m[t]) = 1 THEN Without(m, t) ELSE [m EXCEPT ![t] = @ \ {key}]

InsertIntoBucket(m, key, t) ==
    IF t \in DOMAIN m THEN [m EXCEPT ![t] = @ \cup {key}] ELSE With(m, t, {key})

remove_from_map_by_time(sh, key, value) ==
    IF sh.poisoned THEN sh
    ELSE IF value \notin DOMAIN sh.map_by_time THEN Panic(sh)
    ELSE [sh EXCEPT !.map_by_time = RemoveFromBucket(@, key, value)]

insert_into_map_by_time(sh, key, created_at) ==
    IF sh.poisoned THEN sh
    ELSE [sh EXCEPT !.map_by_time = InsertIntoBucket(@, key, created_at)]

\* AuxMaps::remove without the h.len() == 1 branch: the key is taken out of
\* the bucket of its deadline and the bucket stays
AuxMaps_remove_keeps_bucket(sh, key, expires_at, last_access_time, lru) ==
    LET s1 == IF sh.poisoned \/ expires_at = None THEN sh
              ELSE IF expires_at \notin DOMAIN sh.map_by_expiration THEN Panic(sh)
              ELSE [sh EXCEPT !.map_by_expiration[expires_at] = @ \ {key}]
    IN IF lru THEN remove_from_map_by_time(s1, key, last_access_time) ELSE s1

\* AuxMaps::remove without the if let Some(ex) block: the deadline index is
\* left as it is
AuxMaps_remove_keeps_deadline(sh, key, expires_at, last_access_time, lru) ==
    IF lru THEN remove_from_map_by_time(sh, key, last_access_time) ELSE sh

AuxMaps_remove(sh, key, expires_at, last_access_time, lru) ==
    LET s1 == IF sh.poisoned \/ expires_at = None THEN sh
              ELSE IF expires_at \notin DOMAIN sh.map_by_expiration THEN Panic(sh)
              ELSE [sh EXCEPT !.map_by_expiration = RemoveFromBucket(@, key, expires_at)]
    IN IF lru THEN remove_from_map_by_time(s1, key, last_access_time) ELSE s1

AuxMaps_add(sh, key, created_at, expires_at, lru) ==
    LET s1 == IF sh.poisoned \/ expires_at = None THEN sh
              ELSE [sh EXCEPT !.map_by_expiration = InsertIntoBucket(@, key, expires_at)]
    IN IF lru THEN insert_into_map_by_time(s1, key, created_at) ELSE s1

\* the keys remove_expired lists when it reads the clock as t
AuxMaps_remove_expired(sh, t) ==
    UNION {sh.map_by_expiration[kk] : kk \in {e \in DOMAIN sh.map_by_expiration : e < t}}

\* update_map_by_time without the call of remove_from_map_by_time: the key
\* stays in the bucket of its old stamp
update_map_by_time_keeps_old(sh, key, t, lru) ==
    IF sh.poisoned \/ ~lru THEN sh
    ELSE LET old == sh.map[key].last_access_time
             s1 == [sh EXCEPT !.map[key].last_access_time = t]
         IN IF t # old THEN insert_into_map_by_time(s1, key, t) ELSE s1

\* update_map_by_time with the clock read as t: swap the stamp, move the key
update_map_by_time(sh, key, t, lru) ==
    IF sh.poisoned \/ ~lru THEN sh
    ELSE LET old == sh.map[key].last_access_time
             s1 == [sh EXCEPT !.map[key].last_access_time = t]
         IN IF t # old
            THEN insert_into_map_by_time(remove_from_map_by_time(s1, key, old), key, t)
            ELSE s1

flush(sh) ==
    [sh EXCEPT !.current_memory = 0, !.map = <<>>, !.map_by_time = <<>>,
               !.map_by_expiration = <<>>]

removekey_count(sh, key) == IF key \in DOMAIN sh.map THEN 1 ELSE 0

\* removekey without the update of current_memory
removekey_keeps_memory(sh, key, lru) ==
    IF sh.poisoned \/ key \notin DOMAIN sh.map THEN sh
    ELSE AuxMaps_remove([sh EXCEPT !.map = Without(@, key)], key,
                        sh.map[key].expires_at, sh.map[key].last_access_time, lru)

\* removekey without the call of AuxMaps::remove
removekey_keeps_indexes(sh, key, lru) ==
    IF sh.poisoned \/ key \notin DOMAIN sh.map THEN sh
    ELSE [sh EXCEPT !.map = Without(@, key),
                    !.current_memory =
                        @ - calculate_record_size(Len(key), Value_size(sh.map[key]))]

removekey(sh, key, lru) ==
    IF sh.poisoned \/ key \notin DOMAIN sh.map THEN sh
    ELSE LET value == sh.map[key]
             s1 == [sh EXCEPT !.map = Without(@, key),
                              !.current_memory =
                                  @ - calculate_record_size(Len(key), Value_size(value))]
         IN AuxMaps_remove(s1, key, value.expires_at, value.last_access_time, lru)

\* removekey for every key of a collection, one after the other
RECURSIVE RemoveAll(_, _, _)
RemoveAll(sh, keys, lru) ==
    IF keys = {} THEN sh
    ELSE LET k == CHOOSE x \in keys : TRUE
         IN RemoveAll(removekey(sh, k, lru), keys \ {k}, lru)

\* removekeys that counts every key it is given
removekeys_count_listed(sh, keys) == Cardinality(keys)

removekeys_count(sh, keys) == Cardinality(keys \cap DOMAIN sh.map)

\* remove_expired that removes nothing
remove_expired_none(sh, t, lru) == sh

\* CommonMaps::remove_expired with the clock read as t
remove_expired(sh, t, lru) == RemoveAll(sh, AuxMaps_remove_expired(sh, t), lru)

Min(S) == CHOOSE x \in S : \A y \in S : x <= y

\* the eviction loop that drops the highest bucket of map_by_time
RECURSIVE LruLoop_newest_first(_)
LruLoop_newest_first(sh) ==
    IF sh.poisoned \/ sh.current_memory < max_memory THEN sh
    ELSE IF DOMAIN sh.map_by_time = {} THEN Panic(sh)
    ELSE LruLoop_newest_first(
             RemoveAll(sh, sh.map_by_time[CHOOSE x \in DOMAIN sh.map_by_time :
                                              \A y \in DOMAIN sh.map_by_time : y <= x], TRUE))

\* the eviction loop of cleanup: while over budget, drop the lowest bucket of
\* map_by_time; first_value() panics on an empty index
RECURSIVE LruLoop(_)
LruLoop(sh) ==
    IF sh.poisoned \/ sh.current_memory < max_memory THEN sh
    ELSE IF DOMAIN sh.map_by_time = {} THEN Panic(sh)
    ELSE LruLoop(RemoveAll(sh, sh.map_by_time[Min(DOMAIN sh.map_by_time)], TRUE))

\* cleanup that evicts by last access first and sweeps afterwards
cleanup_evicts_first(sh, t, lru) ==
    IF sh.current_memory >= max_memory
    THEN remove_expired(IF lru THEN LruLoop(sh) ELSE sh, t, lru)
    ELSE sh

\* cleanup with the clock read as t by the sweep: the shard afterwards
cleanup(sh, t, lru) ==
    IF sh.current_memory >= max_memory
    THEN LET s1 == remove_expired(sh, t, lru)
         IN IF lru THEN LruLoop(s1) ELSE s1
    ELSE sh

\* cleanup without the else branch that returns false
cleanup_always_ok(sh, t, lru) == TRUE

\* the value cleanup returns (when it returns)
cleanup_ok(sh, t, lru) ==
    LET s1 == cleanup(sh, t, lru) IN lru \/ s1.current_memory < max_memory


\* set with entry(key).or_insert(v) in place of insert(key, v): a key the map
\* holds keeps its value
set_keeps_existing(sh, key, vh, expiry, created_at, t, lru) ==
    LET v == Value_new(vh, created_at, expiry)
        size == calculate_record_size(Len(key), Value_size(v))
        s0 == [sh EXCEPT !.current_memory = @ + size]
        s1 == cleanup(s0, t, lru)
    IN IF s1.poisoned THEN [shard |-> s1, res |-> "panic"]
       ELSE IF ~cleanup_ok(s0, t, lru)
       THEN [shard |-> [s1 EXCEPT !.current_memory = @ - size], res |-> "OutOfMemory"]
       ELSE IF key \in DOMAIN s1.map
       THEN [shard |-> [s1 EXCEPT !.current_memory = @ - size], res |-> "Ok"]
       ELSE LET s2 == AuxMaps_add([s1 EXCEPT !.map = With(@, key, v)], key,
                                  v.last_access_time, v.expires_at, lru)
            IN [shard |-> s2, res |-> IF s2.poisoned THEN "panic" ELSE "Ok"]

\* set without the call of AuxMaps::remove for the record it replaces
set_keeps_old_indexes(sh, key, vh, expiry, created_at, t, lru) ==
    LET v == Value_new(vh, created_at, expiry)
        size == calculate_record_size(Len(key), Value_size(v))
        s0 == [sh EXCEPT !.current_memory = @ + size]
        s1 == cleanup(s0, t, lru)
    IN IF s1.poisoned THEN [shard |-> s1, res |-> "panic"]
       ELSE IF ~cleanup_ok(s0, t, lru)
       THEN [shard |-> [s1 EXCEPT !.current_memory = @ - size], res |-> "OutOfMemory"]
       ELSE LET s2 == [s1 EXCEPT !.map = With(@, key, v)]
                s3 == IF key \in DOMAIN s1.map
                      THEN [s2 EXCEPT !.current_memory =
                                @ - size + Value_size(v) - Value_size(s1.map[key])]
                      ELSE s2
                s4 == AuxMaps_add(s3, key, v.last_access_time, v.expires_at, lru)
            IN [shard |-> s4, res |-> IF s4.poisoned THEN "panic" ELSE "Ok"]

\* CommonMaps::set.  created_at is the clock as set reads it, t the clock as
\* the sweep of cleanup reads it.  Gives the shard and the result.
set(sh, key, vh, expiry, created_at, t, lru) ==
    LET v == Value_new(vh, created_at, expiry)
        size == calculate_record_size(Len(key), Value_size(v))
        s0 == [sh EXCEPT !.current_memory = @ + size]
        s1 == cleanup(s0, t, lru)
    IN IF s1.poisoned THEN [shard |-> s1, res |-> "panic"]
       ELSE IF ~cleanup_ok(s0, t, lru)
       THEN [shard |-> [s1 EXCEPT !.current_memory = @ - size], res |-> "OutOfMemory"]
       ELSE LET s2 == [s1 EXCEPT !.map = With(@, key, v)]
                s3 == IF key \in DOMAIN s1.map
                      THEN LET old == s1.map[key]
                           IN AuxMaps_remove(
                                  [s2 EXCEPT !.current_memory =
                                       @ - size + Value_size(v) - Value_size(old)],
                                  key, old.expires_at, old.last_access_time, lru)
                      ELSE s2
                s4 == AuxMaps_add(s3, key, v.last_access_time, v.expires_at, lru)
            IN [shard |-> s4, res |-> IF s4.poisoned THEN "panic" ELSE "Ok"]

\* CommonMaps::hset.  Gives the shard, the result and the count returned.
hset(sh, key, values, created_at, t, lru) ==
    LET v == Value_new_hash(values, created_at)
        size == calculate_record_size(Len(key), Value_size(v))
        s0 == [sh EXCEPT !.current_memory = @ + size]
        s1 == cleanup(s0, t, lru)
    IN IF s1.poisoned THEN [shard |-> s1, res |-> "panic", count |-> 0]
       ELSE IF ~cleanup_ok(s0, t, lru)
       THEN [shard |-> [s1 EXCEPT !.current_memory = @ - size],
             res |-> "OutOfMemory", count |-> 0]
       ELSE IF key \in DOMAIN s1.map
       THEN LET existing == s1.map[key]
            IN IF existing.value.tag # "HashMapValue"
               THEN [shard |-> s1, res |-> "WrongType", count |-> 0]
               ELSE LET merged == merge_value(existing, values)
                    IN [shard |-> [s1 EXCEPT !.map[key] = merged,
                                             !.current_memory =
                                                 @ - Value_size(existing) + Value_size(merged)],
                        res |-> "Ok",
                        count |-> merge_inserted(existing, values)]
       ELSE LET s2 == AuxMaps_add([s1 EXCEPT !.map = With(@, key, v)], key,
                                  v.last_access_time, v.expires_at, lru)
            IN [shard |-> s2, res |-> IF s2.poisoned THEN "panic" ELSE "Ok",
                count |-> Cardinality(DOMAIN values)]

\* CommonMaps::hdel
hdel(sh, key, fields, lru) ==
    IF key \in DOMAIN sh.map
    THEN LET existing == sh.map[key]
         IN IF existing.value.tag # "HashMapValue"
            THEN [shard |-> sh, res |-> "WrongType", count |-> 0]
            ELSE LET left == delete_value(existing, fields)
                     s1 == [sh EXCEPT !.map[key] = left,
                                      !.current_memory =
                                          @ - Value_size(existing) + Value_size(left)]
                     s2 == IF DOMAIN left.value.h = {} THEN removekey(s1, key, lru) ELSE s1
                 IN [shard |-> s2, res |-> IF s2.poisoned THEN "panic" ELSE "Ok",
                     count |-> delete_deleted(existing, fields)]
    ELSE [shard |-> sh, res |-> "Ok", count |-> 0]

\* CommonMaps::get: the GetResult when is_expired reads the clock as t
get_result(sh, key, t) ==
    IF key \notin DOMAIN sh.map THEN "NotFound"
    ELSE IF is_expired(sh.map[key], t) THEN "Expired"
    ELSE IF sh.map[key].value.tag \in {"StringValue", "IntValue"} THEN "Found"
    ELSE "WrongValue"

\* what get writes to the result buffer when it finds the key
get_encoded(sh, key) ==
    IF sh.map[key].value.tag = "StringValue"
    THEN resp_encode_binary_string(sh.map[key].value.s)
    ELSE resp_encode_int(sh.map[key].value.i)

\* CommonMaps::hget
hget_result(sh, key, map_key, t) ==
    IF key \notin DOMAIN sh.map THEN "NotFound"
    ELSE IF is_expired(sh.map[key], t) THEN "Expired"
    ELSE IF sh.map[key].value.tag = "HashMapValue"
         THEN IF map_key \in DOMAIN sh.map[key].value.h THEN "Found" ELSE "NotFound"
    ELSE "WrongValue"

\* CommonMaps::hgetall
hgetall_result(sh, key, t) ==
    IF key \notin DOMAIN sh.map THEN "NotFound"
    ELSE IF is_expired(sh.map[key], t) THEN "Expired"
    ELSE IF sh.map[key].value.tag = "HashMapValue" THEN "Found"
    ELSE "WrongValue"


---------------------------------------------------------------------------
(* hash_builders.rs *)

RECURSIVE ByteSum(_)
ByteSum(key) == IF key = <<>> THEN 0 ELSE Head(key) + ByteSum(Tail(key))

\* the selector create_hash_builder("sum", VectorSize) returns: ZeroHashBuilder
\* for one shard, SumHashBuilder otherwise
build_hash(key) == IF VectorSize = 1 THEN 0 ELSE ByteSum(key) % VectorSize

\* usize: a 64-bit number kept as four 16-bit limbs, the lowest first
Limb == 65536
usize(n) == <<n % Limb, n \div Limb, 0, 0>>

\* x << s for s < 16: the bits shifted out at the top are lost
RECURSIVE ShlFrom(_, _, _, _)
ShlFrom(x, s, i, carry) ==
    IF i > 4 THEN <<>>
    ELSE LET v == x[i] * (2 ^ s) + carry
         IN <<v % Limb>> \o ShlFrom(x, s, i + 1, v \div Limb)
shl(x, s) == IF s = 16 THEN <<0, x[1], x[2], x[3]>> ELSE ShlFrom(x, s, 1, 0)

\* x + y and x - y in 64 bits: the wrapped value, and whether the result left
\* the range of usize
RECURSIVE AddFrom(_, _, _, _)
AddFrom(x, y, i, carry) ==
    IF i > 4 THEN [v |-> <<>>, overflow |-> carry = 1]
    ELSE LET v == x[i] + y[i] + carry
             r == AddFrom(x, y, i + 1, v \div Limb)
         IN [v |-> <<v % Limb>> \o r.v, overflow |-> r.overflow]
add(x, y) == AddFrom(x, y, 1, 0)

RECURSIVE SubFrom(_, _, _, _)
SubFrom(x, y, i, borrow) ==
    IF i > 4 THEN [v |-> <<>>, overflow |-> borrow = 1]
    ELSE LET v == x[i] - y[i] - borrow
             r == SubFrom(x, y, i + 1, IF v < 0 THEN 1 ELSE 0)
         IN [v |-> <<(v + Limb) % Limb>> \o r.v, overflow |-> r.overflow]
sub(x, y) == SubFrom(x, y, 1, 0)

\* x % n for 0 < n < 2^15
rem(x, n) ==
    LET r4 == x[4] % n
        r3 == (r4 * Limb + x[3]) % n
        r2 == (r3 * Limb + x[2]) % n
    IN (r2 * Limb + x[1]) % n

\* a ^ b on bytes
RECURSIVE BitXor(_, _)
BitXor(a, b) ==
    IF a = 0 THEN b ELSE IF b = 0 THEN a
    ELSE ((a + b) % 2) + 2 * BitXor(a \div 2, b \div 2)

\* what a call of build_hash gives: an index, or a panic of the calling thread
Index(n) == [panic |-> FALSE, idx |-> n]
HashPanic == [panic |-> TRUE, idx |-> 0]

\* hash = ((hash << 5) + hash) + *c as usize
DJB2Step(hash, c) ==
    LET a == add(shl(hash, 5), hash)
        b == add(a.v, usize(c))
    IN [v |-> b.v, overflow |-> a.overflow \/ b.overflow]

\* the loop of DJB2HashBuilder::build_hash: the hash after the bytes of key,
\* and whether an addition overflowed on the way
RECURSIVE DJB2Loop(_, _)
DJB2Loop(key, hash) ==
    IF key = <<>> THEN [v |-> hash, overflow |-> FALSE]
    ELSE CHOOSE out \in {[v |-> r.v, overflow |-> step.overflow \/ r.overflow] :
                             step \in {DJB2Step(hash, Head(key))},
                             r \in {DJB2Loop(Tail(key), DJB2Step(hash, Head(key)).v)}} : TRUE

\* an overflow panics in a build with overflow checks and wraps in one without
DJB2HashBuilder_build_hash(max_value, key, overflow_checks) ==
    LET h == DJB2Loop(key, usize(5381))
    IN IF h.overflow /\ overflow_checks THEN HashPanic ELSE Index(rem(h.v, max_value))

\* hash = (*c as usize) + (hash << 6) + (hash << 16) - hash
SDBMStep(hash, c) ==
    LET a == add(usize(c), shl(hash, 6))
        b == add(a.v, shl(hash, 16))
        d == sub(b.v, hash)
    IN [v |-> d.v, overflow |-> a.overflow \/ b.overflow \/ d.overflow]

\* the loop of SDBMHashBuilder::build_hash
RECURSIVE SDBMLoop(_, _)
SDBMLoop(key, hash) ==
    IF key = <<>> THEN [v |-> hash, overflow |-> FALSE]
    ELSE CHOOSE out \in {[v |-> r.v, overflow |-> step.overflow \/ r.overflow] :
                             step \in {SDBMStep(hash, Head(key))},
                             r \in {SDBMLoop(Tail(key), SDBMStep(hash, Head(key)).v)}} : TRUE

SDBMHashBuilder_build_hash(max_value, key, overflow_checks) ==
    LET h == SDBMLoop(key, usize(0))
    IN IF h.overflow /\ overflow_checks THEN HashPanic ELSE Index(rem(h.v, max_value))

SumHashBuilder_build_hash(max_value, key) == Index(ByteSum(key) % max_value)

\* the fold of the two xor selectors, in u8
RECURSIVE XorFold(_, _)
XorFold(key, sum) == IF key = <<>> THEN sum ELSE XorFold(Tail(key), BitXor(sum, Head(key)))

XorHashBuilder_build_hash(max_value, key) == Index(XorFold(key, 0) % max_value)

XorHashBuilder256_build_hash(key) == Index(XorFold(key, 0))

ZeroHashBuilder_build_hash(key) == Index(0)

\* a selector: the implementation and its max_value
HashBuilder(kind, max_value) == [ok |-> TRUE, kind |-> kind, max_value |-> max_value]
\* Err(Error::new(ErrorKind::InvalidInput, ..))
InvalidInput == [ok |-> FALSE, kind |-> "InvalidInput", max_value |-> 0]

create_hash_builder(name, max_value) ==
    IF max_value = 1 THEN HashBuilder("zero", 1)
    ELSE CASE name = "xor" ->
                 IF max_value < 256 THEN HashBuilder("xor", max_value)
                 ELSE IF max_value = 256 THEN HashBuilder("xor256", 256)
                 ELSE InvalidInput
           [] name \in {"sum", "djb2", "sdbm"} -> HashBuilder(name, max_value)
           [] OTHER -> InvalidInput

\* HashBuilder::build_hash of the selector hb: the dynamic dispatch
HashBuilder_build_hash(hb, key, overflow_checks) ==
    CASE hb.kind = "djb2" -> DJB2HashBuilder_build_hash(hb.max_value, key, overflow_checks)
      [] hb.kind = "sdbm" -> SDBMHashBuilder_build_hash(hb.max_value, key, overflow_checks)
      [] hb.kind = "sum" -> SumHashBuilder_build_hash(hb.max_value, key)
      [] hb.kind = "xor" -> XorHashBuilder_build_hash(hb.max_value, key)
      [] hb.kind = "xor256" -> XorHashBuilder256_build_hash(key)
      [] hb.kind = "zero" -> ZeroHashBuilder_build_hash(key)

---------------------------------------------------------------------------
(* resp_parser.rs: tokens *)

RespBinaryString(v) == [t |-> "RespBinaryString", s |-> v, i |-> 0]
RespInteger(n) == [t |-> "RespInteger", s |-> <<>>, i |-> n]
RespNullString == [t |-> "RespNullString", s |-> <<>>, i |-> 0]

---------------------------------------------------------------------------
(* resp_commands.rs and worker_data.rs: the commands.                       *)
(* A command is an operator on the shards of the session's keyspace: ss is  *)
(* CommonDataMap.map (shard index -> shard), lru the cleanup_using_lru flag,*)
(* t1 and t2 the values of its first and second read of the clock.  It      *)
(* gives a record                                                           *)
(*   shards  the shards afterwards                                          *)
(*   res     the result of the shard operation                              *)
(*   reply   the bytes appended to the reply                                *)
(*   reads   which of the two reads of the clock took place                 *)
(* A command runs under the lock of the shard build_hash picks.             *)

Outcome(ss, r, bytes, n) == [shards |-> ss, res |-> r, reply |-> bytes, reads |-> n]

\* a command that replies -invalid command before it touches the keyspace
Invalid(ss) == Outcome(ss, "InvalidCommand", INVALID_COMMAND_ERROR, {})

\* parse_number_from_vec: the digits of v; the sign is computed and not used
RECURSIVE DigitsValue(_, _)
DigitsValue(v, acc) ==
    IF v = <<>> THEN acc
    ELSE IF Head(v) = 45 THEN DigitsValue(Tail(v), acc)
    ELSE DigitsValue(Tail(v), acc * 10 + (Head(v) - 48))

parse_number_from_vec(v) ==
    IF \A j \in DOMAIN v : v[j] = 45 \/ (48 <= v[j] /\ v[j] <= 57)
    THEN [some |-> TRUE, n |-> DigitsValue(v, 0)]
    ELSE [some |-> FALSE, n |-> 0]

\* run_set_command on the tokens after the value (none, or an option and a
\* number): whether the command is accepted, and the expiry it passes to set
set_expiry(rest) ==
    LET bad == [ok |-> FALSE, expiry |-> None]
        with_result(e) == IF e <= 0 THEN bad ELSE [ok |-> TRUE, expiry |-> e]
        number(mult) ==
            CASE rest[2].t = "RespInteger" -> with_result(rest[2].i * mult)
              [] rest[2].t = "RespBinaryString" ->
                    IF parse_number_from_vec(rest[2].s).some
                    THEN with_result(parse_number_from_vec(rest[2].s).n * mult)
                    ELSE bad
              [] OTHER -> bad
    IN IF Len(rest) = 0 THEN [ok |-> TRUE, expiry |-> None]
       ELSE IF Len(rest) = 2
       THEN IF rest[1].t = "RespBinaryString" /\ Len(rest[1].s) = 2
                  /\ rest[1].s[2] \in {120, 88}
            THEN CASE rest[1].s[1] \in {101, 69} -> number(1000)
                   [] rest[1].s[1] \in {112, 80} -> number(1)
                   [] OTHER -> bad
            ELSE bad
       ELSE bad

\* the value run_set_command builds from the value token
set_value(tok) == IF tok.t = "RespBinaryString" THEN StringValue(tok.s) ELSE IntValue(tok.i)

\* SET k v [EX s | PX ms]: t1 is created_at, t2 the clock as the sweep reads it
run_set_command(ss, lru, k, vtok, rest, t1, t2) ==
    IF vtok.t \notin {"RespBinaryString", "RespInteger"} \/ ~set_expiry(rest).ok
    THEN Invalid(ss)
    ELSE LET idx == build_hash(k)
             vh == set_value(vtok)
             size == calculate_record_size(Len(k), ValueHolder_size(vh))
             sweeps == ss[idx].current_memory + size >= max_memory
             r == set(ss[idx], k, vh, set_expiry(rest).expiry, t1, t2, lru)
         IN Outcome([ss EXCEPT ![idx] = r.shard], r.res,
                    CASE r.res = "Ok" -> OK
                      [] r.res = "OutOfMemory" -> build_out_of_memory_error
                      [] OTHER -> <<>>,
                    IF sweeps THEN {1, 2} ELSE {1})

\* the HashMap run_hset_command builds from the tokens after the key: a pair
\* goes in when both its tokens are bulk strings, a later pair overwrites
RECURSIVE hset_values(_)
hset_values(toks) ==
    IF Len(toks) < 2 THEN <<>>
    ELSE LET n == Len(toks)
             before == hset_values(SubSeq(toks, 1, n - 2))
         IN IF toks[n - 1].t = "RespBinaryString" /\ toks[n].t = "RespBinaryString"
            THEN With(before, toks[n - 1].s, toks[n].s)
            ELSE before

\* HSET k f1 v1 [f2 v2 ...]: toks are the tokens after the key
run_hset_command(ss, lru, k, toks, t1, t2) ==
    LET l == 2 + Len(toks)
    IN IF ~(l >= 4 /\ l % 2 = 0)
       THEN Invalid(ss)
       ELSE LET idx == build_hash(k)
                values == hset_values(toks)
                size == calculate_record_size(Len(k), calculate_map_size(values))
                sweeps == ss[idx].current_memory + size >= max_memory
                r == hset(ss[idx], k, values, t1, t2, lru)
            IN Outcome([ss EXCEPT ![idx] = r.shard], r.res,
                       CASE r.res = "Ok" -> resp_encode_int(r.count)
                         [] r.res = "OutOfMemory" -> build_out_of_memory_error
                         [] r.res = "WrongType" -> build_wrong_data_type_error
                         [] OTHER -> <<>>,
                       IF sweeps THEN {1, 2} ELSE {1})

\* A read (WorkerData::get, hget, hgetall) that got the GetResult g: on Found
\* the stamp is moved to t2, the clock as update_map_by_time reads it; on
\* Expired the reader takes the exclusive lock and removes the key.  found
\* and not_found are the replies of the command.
Read(ss, lru, k, g, t2, found, not_found) ==
    LET idx == build_hash(k)
        sh == ss[idx]
        timed == k \in DOMAIN sh.map /\ sh.map[k].expires_at # None
        s1 == CASE g = "Found" -> update_map_by_time(sh, k, t2, lru)
                [] g = "Expired" -> removekey(sh, k, lru)
                [] OTHER -> sh
    IN Outcome([ss EXCEPT ![idx] = s1],
               IF s1.poisoned THEN "panic" ELSE g,
               CASE s1.poisoned -> <<>>
                 [] g = "Found" -> found
                 [] g = "WrongValue" -> build_wrong_data_type_error
                 [] OTHER -> not_found,
               (IF timed THEN {1} ELSE {}) \cup (IF g = "Found" /\ lru THEN {2} ELSE {}))

\* GET k: t1 is the clock as is_expired reads it
run_get_command(ss, lru, k, t1, t2) ==
    LET sh == ss[build_hash(k)]
        g == get_result(sh, k, t1)
    IN Read(ss, lru, k, g, t2, IF g = "Found" THEN get_encoded(sh, k) ELSE <<>>,
            NULL_STRING)

\* HGET k f
run_hget_command(ss, lru, k, f, t1, t2) ==
    LET sh == ss[build_hash(k)]
        g == hget_result(sh, k, f, t1)
    IN Read(ss, lru, k, g, t2,
            IF g = "Found" THEN resp_encode_binary_string(sh.map[k].value.h[f]) ELSE <<>>,
            NULL_STRING)

\* HGETALL k: ord is the order in which the HashMap gives its fields
run_hgetall_command(ss, lru, k, ord, t1, t2) ==
    LET sh == ss[build_hash(k)]
        g == hgetall_result(sh, k, t1)
    IN Read(ss, lru, k, g, t2,
            IF g = "Found" THEN resp_encode_map(sh.map[k].value.h, ord) ELSE <<>>,
            NULL_STRING)

\* DEL k1 [k2 ...]: the keys grouped by shard, each shard under its own lock
run_del_command(ss, lru, ks) ==
    IF ks = {}
    THEN Invalid(ss)
    ELSE Outcome([i \in DOMAIN ss |-> RemoveAll(ss[i], {k \in ks : build_hash(k) = i}, lru)],
                 "Ok",
                 resp_encode_int(
                     SumOver(DOMAIN ss,
                             [i \in DOMAIN ss |->
                                 removekeys_count(ss[i], {k \in ks : build_hash(k) = i})])),
                 {})

\* HDEL k f1 [f2 ...]
run_hdel_command(ss, lru, k, fs) ==
    IF fs = {}
    THEN Invalid(ss)
    ELSE LET idx == build_hash(k)
             r == hdel(ss[idx], k, fs, lru)
         IN Outcome([ss EXCEPT ![idx] = r.shard], r.res,
                    CASE r.res = "Ok" -> resp_encode_int(r.count)
                      [] r.res = "WrongType" -> build_wrong_data_type_error
                      [] OTHER -> <<>>,
                    {})

\* FLUSHDB
run_flush_command(ss) == Outcome([i \in DOMAIN ss |-> flush(ss[i])], "Ok", OK, {})

---------------------------------------------------------------------------
(* resp_parser.rs: the parser.  buffer is the receive buffer, amt the number *)
(* of bytes read into it; an index is a Rust index (buffer[idx] is the      *)
(* element idx + 1 of the sequence).  A parse result is a record with ok     *)
(* FALSE for Err(INVALID_COMMAND_ERROR) and otherwise the new index idx and  *)
(* what was parsed.                                                          *)

RespArray(v) == [t |-> "RespArray", s |-> <<>>, i |-> 0, v |-> v]
RespString(v) == [t |-> "RespString", s |-> v, i |-> 0]
RespNullArray == [t |-> "RespNullArray", s |-> <<>>, i |-> 0]

\* "+PONG\r\n"
PONG == <<43, 80, 79, 78, 71, 13, 10>>

ParseErr == [ok |-> FALSE]

\* the loop of parse_number
RECURSIVE ParseNumberLoop(_, _, _, _, _, _)
ParseNumberLoop(buffer, idx, amt, new_idx, result, sign) ==
    IF new_idx >= amt THEN ParseErr
    ELSE LET c == buffer[new_idx + 1]
         IN CASE c = 45 -> ParseNumberLoop(buffer, idx, amt, new_idx + 1, result, -sign)
              [] 48 <= c /\ c <= 57 ->
                    ParseNumberLoop(buffer, idx, amt, new_idx + 1, result * 10 + (c - 48), sign)
              [] c = 13 ->
                    IF idx = new_idx THEN ParseErr
                    ELSE [ok |-> TRUE, idx |-> new_idx + 2, n |-> result * sign]
              [] OTHER -> ParseErr

parse_number(buffer, idx, amt) == ParseNumberLoop(buffer, idx, amt, idx, 0, 1)

\* isize: 64 bits in two's complement, kept as four limbs like usize.
\* isize(n) for a small n of either sign
isize(n) == IF n >= 0 THEN usize(n) ELSE sub(usize(0), usize(-n)).v
isize_MIN == <<0, 0, 0, 32768>>
isize_MAX == <<65535, 65535, 65535, 32767>>
IsNegative(x) == x[4] >= 32768

\* x + y in isize: the wrapped value, and whether the sum left the range
checked_add(x, y) ==
    CHOOSE out \in {[v |-> v, overflow |-> IsNegative(x) = IsNegative(y)
                                              /\ IsNegative(v) # IsNegative(x)] :
                        v \in {add(x, y).v}} : TRUE

\* result * 10 + digit in isize, for result >= 0
MulTenAdd(result, digit) ==
    CHOOSE out \in {[v |-> r.v, overflow |-> x2.overflow \/ x4.overflow \/ x8.overflow
                                              \/ x10.overflow \/ r.overflow] :
                        x2 \in {checked_add(result, result)},
                        x4 \in {checked_add(checked_add(result, result).v,
                                            checked_add(result, result).v)},
                        x8 \in {checked_add(
                                   checked_add(checked_add(result, result).v,
                                               checked_add(result, result).v).v,
                                   checked_add(checked_add(result, result).v,
                                               checked_add(result, result).v).v)},
                        x10 \in {checked_add(
                                    checked_add(
                                        checked_add(checked_add(result, result).v,
                                                    checked_add(result, result).v).v,
                                        checked_add(checked_add(result, result).v,
                                                    checked_add(result, result).v).v).v,
                                    checked_add(result, result).v)},
                        r \in {checked_add(
                                  checked_add(
                                      checked_add(
                                          checked_add(checked_add(result, result).v,
                                                      checked_add(result, result).v).v,
                                          checked_add(checked_add(result, result).v,
                                                      checked_add(result, result).v).v).v,
                                      checked_add(result, result).v).v,
                                  usize(digit))}} : TRUE

\* result * sign for sign 1 or -1
MulSign(result, sign) ==
    IF sign = 1 THEN [v |-> result, overflow |-> FALSE]
    ELSE [v |-> sub(usize(0), result).v, overflow |-> result = isize_MIN]

\* the panic of a thread in parse_number
ParsePanic == [ok |-> FALSE, panic |-> TRUE]

\* the loop of parse_number with result at the width of isize: in a build
\* with overflow checks an overflow panics, in one without the value wraps
RECURSIVE ParseIsizeLoop(_, _, _, _, _, _, _)
ParseIsizeLoop(buffer, idx, amt, new_idx, result, sign, checks) ==
    IF new_idx >= amt THEN [ok |-> FALSE, panic |-> FALSE]
    ELSE LET c == buffer[new_idx + 1]
         IN CASE c = 45 -> ParseIsizeLoop(buffer, idx, amt, new_idx + 1, result, -sign, checks)
              [] 48 <= c /\ c <= 57 ->
                    CHOOSE out \in
                        {IF step.overflow /\ checks THEN ParsePanic
                         ELSE ParseIsizeLoop(buffer, idx, amt, new_idx + 1, step.v, sign, checks) :
                             step \in {MulTenAdd(result, c - 48)}} : TRUE
              [] c = 13 ->
                    IF idx = new_idx THEN [ok |-> FALSE, panic |-> FALSE]
                    ELSE IF MulSign(result, sign).overflow /\ checks THEN ParsePanic
                    ELSE [ok |-> TRUE, panic |-> FALSE, idx |-> new_idx + 2,
                          n |-> MulSign(result, sign).v]
              [] OTHER -> [ok |-> FALSE, panic |-> FALSE]

parse_number_isize(buffer, idx, amt, checks) ==
    ParseIsizeLoop(buffer, idx, amt, idx, usize(0), 1, checks)

\* x / 10 and x % 10 for an unsigned x of four limbs
DivTen(x) ==
    LET c4 == x[4]
        c3 == (c4 % 10) * Limb + x[3]
        c2 == (c3 % 10) * Limb + x[2]
        c1 == (c2 % 10) * Limb + x[1]
    IN [q |-> <<c1 \div 10, c2 \div 10, c3 \div 10, c4 \div 10>>, r |-> c1 % 10]

\* the decimal digits of an unsigned x
RECURSIVE UnsignedDigits(_)
UnsignedDigits(x) ==
    CHOOSE out \in {IF d.q = usize(0) THEN <<48 + d.r>>
                    ELSE UnsignedDigits(d.q) \o <<48 + d.r>> : d \in {DivTen(x)}} : TRUE

\* isize::to_string at the width of isize
isize_to_string(x) ==
    IF IsNegative(x) THEN <<45>> \o UnsignedDigits(sub(usize(0), x).v)
    ELSE UnsignedDigits(x)

\* parse_string: the bytes up to the next \r; the two bytes from the \r on
\* are skipped unread
parse_string(buffer, idx, amt) ==
    LET ends == {j \in idx..(amt - 1) : buffer[j + 1] = 13}
    IN IF ends = {} THEN ParseErr
       ELSE LET new_idx == CHOOSE j \in ends : \A j2 \in ends : j <= j2
            IN [ok |-> TRUE, idx |-> new_idx + 2,
                tok |-> RespString(SubSeq(buffer, idx + 1, new_idx))]

parse_binary_string(buffer, idx, amt) ==
    LET r == parse_number(buffer, idx, amt)
    IN IF ~r.ok THEN ParseErr
       ELSE IF r.n = -1 THEN [ok |-> TRUE, idx |-> r.idx, tok |-> RespNullString]
       ELSE IF r.n = 0 THEN [ok |-> TRUE, idx |-> r.idx + 2, tok |-> RespBinaryString(<<>>)]
       ELSE IF r.n < 0 THEN ParseErr
       ELSE LET string_end == r.idx + r.n
                end == string_end + 2
            IN IF end > amt THEN ParseErr
               ELSE [ok |-> TRUE, idx |-> end,
                     tok |-> RespBinaryString(SubSeq(buffer, r.idx + 1, string_end))]

RECURSIVE parse_token(_, _, _)

\* the loop of parse_array: n more tokens after those in result
RECURSIVE ParseArrayLoop(_, _, _, _, _)
ParseArrayLoop(buffer, new_idx, amt, n, result) ==
    IF n = 0 THEN [ok |-> TRUE, idx |-> new_idx, tok |-> RespArray(result)]
    ELSE LET r == parse_token(buffer, new_idx, amt)
         IN IF ~r.ok THEN ParseErr
            ELSE ParseArrayLoop(buffer, r.idx, amt, n - 1, Append(result, r.tok))

parse_array(buffer, idx, amt) ==
    LET r == parse_number(buffer, idx, amt)
    IN IF ~r.ok THEN ParseErr
       ELSE IF r.n = -1 THEN [ok |-> TRUE, idx |-> r.idx, tok |-> RespNullArray]
       ELSE IF r.n < 0 THEN ParseErr
       ELSE ParseArrayLoop(buffer, r.idx, amt, r.n, <<>>)

parse_token(buffer, idx, amt) ==
    IF idx < amt
    THEN CASE buffer[idx + 1] = 42 -> parse_array(buffer, idx + 1, amt)
           [] buffer[idx + 1] = 36 -> parse_binary_string(buffer, idx + 1, amt)
           [] buffer[idx + 1] = 58 ->
                 LET r == parse_number(buffer, idx + 1, amt)
                 IN IF ~r.ok THEN ParseErr
                    ELSE [ok |-> TRUE, idx |-> r.idx, tok |-> RespInteger(r.n)]
           [] OTHER -> parse_string(buffer, idx, amt)
    ELSE ParseErr

\* the loop of parse_tokens and the test that follows it
RECURSIVE ParseTokensLoop(_, _, _, _)
ParseTokensLoop(buffer, amt, idx, tokens) ==
    IF idx < amt
    THEN LET r == parse_token(buffer, idx, amt)
         IN IF ~r.ok THEN ParseErr
            ELSE ParseTokensLoop(buffer, amt, r.idx, Append(tokens, r.tok))
    ELSE IF idx # amt THEN ParseErr
    ELSE [ok |-> TRUE, tokens |-> tokens]

parse_tokens(buffer, amt) == ParseTokensLoop(buffer, amt, 0, <<>>)

\* check_name: the bytes of s from idx on are those of expected, or those
\* less 0x20 (the upper-case letters)
check_name(s, idx, expected) ==
    /\ Len(s) = idx + Len(expected)
    /\ \A j \in idx..(Len(s) - 1) :
          s[j + 1] = expected[j - idx + 1] \/ s[j + 1] + 32 = expected[j - idx + 1]

\* run_ping_command
run_ping_command(ss, v) ==
    Outcome(ss, "Ok",
            IF Len(v) >= 2 /\ v[2].t = "RespBinaryString"
            THEN resp_encode_binary_string(v[2].s) ELSE PONG,
            {})

\* the handlers of resp_commands.rs on the array v of a request: the checks
\* they make on the number and the kinds of the tokens, then the command
get_tokens(ss, lru, v, t) ==
    IF Len(v) = 2 /\ v[2].t = "RespBinaryString"
    THEN run_get_command(ss, lru, v[2].s, t, t) ELSE Invalid(ss)

set_tokens(ss, lru, v, t) ==
    IF Len(v) \in {3, 5} /\ v[2].t = "RespBinaryString"
    THEN run_set_command(ss, lru, v[2].s, v[3], SubSeq(v, 4, Len(v)), t, t)
    ELSE Invalid(ss)

del_tokens(ss, lru, v) ==
    IF Len(v) >= 2 /\ \A j \in 2..Len(v) : v[j].t = "RespBinaryString"
    THEN run_del_command(ss, lru, {v[j].s : j \in 2..Len(v)}) ELSE Invalid(ss)

\* run_command: the dispatch on the first letter, the length and the name of
\* the command, for DEL, FLUSHDB, FLUSHALL, GET, SET and PING; every clock
\* read of the command gives t.  (CONFIG, DBSIZE and SELECT are left to
\* the -invalid command branch: no buffer of Buffers names them.)
run_command(ss, lru, token, t) ==
    IF token.t = "RespArray"
    THEN IF Len(token.v) > 0 /\ token.v[1].t = "RespBinaryString" /\ Len(token.v[1].s) > 0
         THEN LET v == token.v
                  s == v[1].s
              IN CASE s[1] \in {100, 68} /\ Len(s) = 3 /\ check_name(s, 1, <<101, 108>>) ->
                        del_tokens(ss, lru, v)
                   [] s[1] \in {102, 70} /\ Len(s) = 7 /\ check_name(s, 1, <<108, 117, 115, 104, 100, 98>>) ->
                        run_flush_command(ss)
                   [] s[1] \in {102, 70} /\ Len(s) = 8 /\ check_name(s, 1, <<108, 117, 115, 104, 97, 108, 108>>) ->
                        run_flush_command(ss)
                   [] s[1] \in {103, 71} /\ check_name(s, 1, <<101, 116>>) -> get_tokens(ss, lru, v, t)
                   [] s[1] \in {115, 83} /\ Len(s) = 3 /\ check_name(s, 1, <<101, 116>>) ->
                        set_tokens(ss, lru, v, t)
                   [] s[1] \in {112, 80} /\ check_name(s, 1, <<105, 110, 103>>) -> run_ping_command(ss, v)
                   [] OTHER -> Invalid(ss)
         ELSE Invalid(ss)
    ELSE IF token.t = "RespString"
    THEN IF Len(token.s) > 0 /\ token.s[1] \in {112, 80} /\ check_name(token.s, 1, <<105, 110, 103>>)
         THEN run_ping_command(ss, <<>>)
         ELSE Invalid(ss)
    ELSE Invalid(ss)

\* the loop of resp_parse over the tokens: the replies are appended to
\* result; a command that panics ends the thread of the connection
RECURSIVE RunCommands(_, _, _, _, _, _)
RunCommands(ss, lru, tokens, j, t, result) ==
    IF j > Len(tokens) THEN [shards |-> ss, reply |-> result]
    ELSE LET o == run_command(ss, lru, tokens[j], t)
         IN IF o.res = "panic" THEN [shards |-> o.shards, reply |-> <<>>]
            ELSE RunCommands(o.shards, lru, tokens, j + 1, t, result \o o.reply)

\* resp_parse that runs the requests it parsed before the one that failed
resp_parse_runs_prefix(ss, lru, buffer, amt, t) ==
    LET RECURSIVE Loop(_, _, _)
        Loop(s1, idx, result) ==
            IF idx < amt
            THEN LET r == parse_token(buffer, idx, amt)
                 IN IF ~r.ok THEN [shards |-> s1, reply |-> result \o INVALID_COMMAND_ERROR]
                    ELSE LET o == run_command(s1, lru, r.tok, t)
                         IN Loop(o.shards, r.idx, result \o o.reply)
            ELSE IF idx # amt THEN [shards |-> s1, reply |-> result \o INVALID_COMMAND_ERROR]
            ELSE [shards |-> s1, reply |-> result]
    IN Loop(ss, 0, <<>>)

\* resp_parse: the new keyspace and the bytes written to the connection
resp_parse(ss, lru, buffer, amt, t) ==
    LET p == parse_tokens(buffer, amt)
    IN IF ~p.ok THEN [shards |-> ss, reply |-> INVALID_COMMAND_ERROR]
       ELSE RunCommands(ss, lru, p.tokens, 1, t, <<>>)

---------------------------------------------------------------------------
(* common_data.rs: the database directory.  A directory is a record         *)
(*   maps_map      name -> Arc, the resident keyspaces                      *)
(*   keyspaces     Arc -> shards, the keyspaces the Arcs point to           *)
(*   map_by_time   time -> set of names                                     *)
(* An Arc is a number: the n-th keyspace built is Arc n.                    *)

ShardIds == 0..(VectorSize - 1)

\* the configured CommonData.max_open_databases
max_open_databases == 1

\* "-database already exists\r\n"
DATABASE_ALREADY_EXISTS ==
    <<45, 100, 97, 116, 97, 98, 97, 115, 101, 32, 97, 108, 114, 101, 97, 100, 121, 32, 101,
      120, 105, 115, 116, 115, 13, 10>>
\* "-invalid database name\r\n"
INVALID_DATABASE_NAME ==
    <<45, 105, 110, 118, 97, 108, 105, 100, 32, 100, 97, 116, 97, 98, 97, 115, 101, 32, 110,
      97, 109, 101, 13, 10>>

\* build_maps: the shards of a new keyspace
build_maps == [i \in ShardIds |-> build_map]

\* the Arc of the next keyspace
NewArc(d) == Cardinality(DOMAIN d.keyspaces) + 1

\* CommonData::select: the Arc under db_name, of a new keyspace when the name
\* is vacant
CommonData_select(d, db_name) ==
    IF db_name \in DOMAIN d.maps_map
    THEN [dir |-> d, arc |-> d.maps_map[db_name]]
    ELSE [dir |-> [d EXCEPT !.maps_map = With(@, db_name, NewArc(d)),
                            !.keyspaces = With(@, NewArc(d), build_maps)],
          arc |-> NewArc(d)]

\* CommonData::insert_to_map_by_time: t is the clock
insert_to_map_by_time(d, db_name, t) ==
    [d EXCEPT !.map_by_time = InsertIntoBucket(@, db_name, t)]

\* CommonData::move_to_top reads the clock and does nothing else
move_to_top(d, db_name, t) == d

\* CommonData::createdb that builds a new keyspace under an occupied name too
createdb_replaces(d, db_name, t) ==
    LET d1 == [d EXCEPT !.maps_map = With(@, db_name, NewArc(d)),
                        !.keyspaces = With(@, NewArc(d), build_maps)]
    IN IF db_name \in DOMAIN d.maps_map
       THEN [ok |-> FALSE, err |-> DATABASE_ALREADY_EXISTS, dir |-> d1, arc |-> 0]
       ELSE [ok |-> TRUE, err |-> <<>>, dir |-> insert_to_map_by_time(d1, db_name, t),
             arc |-> NewArc(d)]

\* CommonData::createdb
createdb(d, db_name, t) ==
    IF db_name \in DOMAIN d.maps_map
    THEN [ok |-> FALSE, err |-> DATABASE_ALREADY_EXISTS, dir |-> d, arc |-> 0]
    ELSE [ok |-> TRUE, err |-> <<>>,
          dir |-> insert_to_map_by_time(
                      [d EXCEPT !.maps_map = With(@, db_name, NewArc(d)),
                                !.keyspaces = With(@, NewArc(d), build_maps)],
                      db_name, t),
          arc |-> NewArc(d)]

\* CommonData::flush_all: every shard of every keyspace of maps_map
flush_all(d) ==
    [d EXCEPT !.keyspaces =
        [arc \in DOMAIN @ |->
            IF \E n \in DOMAIN d.maps_map : d.maps_map[n] = arc
            THEN [i \in DOMAIN @[arc] |-> flush(@[arc][i])]
            ELSE @[arc]]]

\* load_maps: the sources do not hold it; it returns an error, whose text is
\* taken to be "-", or a keyspace, taken to be an empty one
LoadResults == {"Ok", "Err"}
load_maps(db_name, loaded) ==
    IF loaded = "Ok" THEN [ok |-> TRUE, err |-> <<>>, maps |-> build_maps]
    ELSE [ok |-> FALSE, err |-> <<45>>, maps |-> <<>>]

\* CommonData::loaddb: loaded is what load_maps returns for a vacant name
loaddb(d, db_name, t, loaded) ==
    IF db_name \in DOMAIN d.maps_map
    THEN [ok |-> TRUE, err |-> <<>>, dir |-> d, arc |-> d.maps_map[db_name]]
    ELSE LET l == load_maps(db_name, loaded)
         IN IF ~l.ok THEN [ok |-> FALSE, err |-> l.err, dir |-> d, arc |-> 0]
            ELSE [ok |-> TRUE, err |-> <<>>,
                  dir |-> insert_to_map_by_time(
                              [d EXCEPT !.maps_map = With(@, db_name, NewArc(d)),
                                        !.keyspaces = With(@, NewArc(d), l.maps)],
                              db_name, t),
                  arc |-> NewArc(d)]

---------------------------------------------------------------------------
(* worker_data.rs: the session of a connection, a record with               *)
(* current_db_name and current_db (an Arc)                                  *)

\* String::from_utf8 on one- and two-byte encodings: a byte below 0x80, or a
\* byte 0xC2..0xDF followed by a byte 0x80..0xBF
RECURSIVE from_utf8(_)
from_utf8(v) ==
    IF v = <<>> THEN TRUE
    ELSE IF v[1] < 128 THEN from_utf8(Tail(v))
    ELSE IF 194 <= v[1] /\ v[1] <= 223 /\ Len(v) >= 2 /\ 128 <= v[2] /\ v[2] <= 191
    THEN from_utf8(Tail(Tail(v)))
    ELSE FALSE

parse_db_name(db_name) ==
    IF from_utf8(db_name) THEN [ok |-> TRUE, err |-> <<>>]
    ELSE [ok |-> FALSE, err |-> INVALID_DATABASE_NAME]

\* a connection that is not open has no session
Closed == [open |-> FALSE]

WorkerData(name, arc) == [open |-> TRUE, current_db_name |-> name, current_db |-> arc]

\* the result of a command that rebinds: the session, the directory, Ok(())
\* or the error
Rebound(w, d, ok, err) == [session |-> w, dir |-> d, ok |-> ok, err |-> err]

\* WorkerData::new
WorkerData_new(d, db_name) ==
    IF ~parse_db_name(db_name).ok THEN Rebound(Closed, d, FALSE, parse_db_name(db_name).err)
    ELSE LET r == CommonData_select(d, db_name)
         IN Rebound(WorkerData(db_name, r.arc), r.dir, TRUE, <<>>)

\* WorkerData::select that stores the name and keeps the Arc it had
WorkerData_select_keeps_arc(w, d, db_name) ==
    IF ~parse_db_name(db_name).ok THEN Rebound(w, d, FALSE, parse_db_name(db_name).err)
    ELSE LET r == CommonData_select(d, db_name)
         IN Rebound(WorkerData(db_name, w.current_db), r.dir, TRUE, <<>>)

\* WorkerData::select
WorkerData_select(w, d, db_name) ==
    IF ~parse_db_name(db_name).ok THEN Rebound(w, d, FALSE, parse_db_name(db_name).err)
    ELSE LET r == CommonData_select(d, db_name)
         IN Rebound(WorkerData(db_name, r.arc), r.dir, TRUE, <<>>)

\* WorkerData::createdb
WorkerData_createdb(w, d, db_name, t) ==
    IF ~parse_db_name(db_name).ok THEN Rebound(w, d, FALSE, parse_db_name(db_name).err)
    ELSE LET r == createdb(d, db_name, t)
         IN IF ~r.ok THEN Rebound(w, r.dir, FALSE, r.err)
            ELSE Rebound(WorkerData(db_name, r.arc), r.dir, TRUE, <<>>)

\* WorkerData::loaddb
WorkerData_loaddb(w, d, db_name, t, loaded) ==
    IF ~parse_db_name(db_name).ok THEN Rebound(w, d, FALSE, parse_db_name(db_name).err)
    ELSE LET r == loaddb(d, db_name, t, loaded)
         IN IF ~r.ok THEN Rebound(w, r.dir, FALSE, r.err)
            ELSE Rebound(WorkerData(db_name, r.arc), r.dir, TRUE, <<>>)

---------------------------------------------------------------------------
(* resp_commands.rs: SELECT, CREATEDB and LOADDB on the array v of the      *)
(* request; the result has the session, the directory and the reply         *)

Replied(r) == [session |-> r.session, dir |-> r.dir, reply |-> IF r.ok THEN OK ELSE r.err]

InvalidRebind(w, d) == [session |-> w, dir |-> d, reply |-> INVALID_COMMAND_ERROR]

run_select_command(w, d, v) ==
    IF Len(v) = 2 /\ v[2].t = "RespBinaryString"
    THEN Replied(WorkerData_select(w, d, v[2].s)) ELSE InvalidRebind(w, d)

run_createdb_command(w, d, v, t) ==
    IF Len(v) = 2 /\ v[2].t = "RespBinaryString"
    THEN Replied(WorkerData_createdb(w, d, v[2].s, t)) ELSE InvalidRebind(w, d)

run_loaddb_command(w, d, v, t, loaded) ==
    IF Len(v) = 2 /\ v[2].t = "RespBinaryString"
    THEN Replied(WorkerData_loaddb(w, d, v[2].s, t, loaded)) ELSE InvalidRebind(w, d)

\* a key command of session w: the handler runs on the shards behind
\* w.current_db and then calls move_to_top for w.current_db_name
OnCurrentDb(w, d, o, t) ==
    move_to_top([d EXCEPT !.keyspaces[w.current_db] = o.shards], w.current_db_name, t)


---------------------------------------------------------------------------
(* The state *)

VARIABLES
    now,                \* the last value read from the clock (ms since start_time)
    cleanup_using_lru,  \* the configuration flag of every shard
    shards,             \* CommonDataMap.map of the session's keyspace
    pending,            \* per reader: the key it found expired under the shared
                        \* lock and has yet to remove under the exclusive lock
    maps_map,           \* CommonData.maps_map: name -> Arc of a keyspace
    keyspaces,          \* the keyspaces behind the Arcs: Arc -> shards
    db_map_by_time,     \* CommonData.map_by_time: time -> set of names
    sessions,           \* per connection: its WorkerData, or Closed
    overflow_checks,    \* the build: arithmetic overflow panics (or wraps)
    hash_builder,       \* the selector main built at startup
    routes,             \* key -> what build_hash gave for the key last
    stripes,            \* CommonDataMap.map of a keyspace of DelVectorSize shards
    deleting,           \* per connection: its DEL between the locks of the shards
    sent,               \* what the peer encoded: a byte string, an integer, or raw bytes
    wire,               \* the bytes on the wire
    parsed,             \* what the parser made of the bytes
    gmaps,              \* a GenericMaps with use_map_by_time, shared by the threads that call get
    getters,            \* what each of those threads is doing
    workers             \* the command each connection thread runs, where it is in it, and the locks it holds

\* the state of the readers between their two locks
race_vars == <<pending>>
\* the state of the database directory and of the connections
db_vars == <<maps_map, keyspaces, db_map_by_time, sessions>>

\* the state of the hash selector
hash_vars == <<overflow_checks, hash_builder, routes>>

\* the state of the keyspace of several shards and of the DELs on it
del_vars == <<stripes, deleting>>

\* the state of the wire between an encoder and the parser
parse_vars == <<sent, wire, parsed>>
\* the state of the GenericMaps the threads read
generic_vars == <<gmaps, getters>>
\* the state of the connection threads followed lock by lock
lock_vars == <<workers>>

vars == <<now, cleanup_using_lru, shards, pending, maps_map, keyspaces, db_map_by_time,
          sessions, overflow_checks, hash_builder, routes, stripes, deleting,
          sent, wire, parsed,
          gmaps, getters,
          workers>>

\* the connections whose reads are followed lock by lock
MaxReaders == 1
Readers == 1..MaxReaders
\* no key
NoKey == <<>>

\* the connections of the directory
MaxConnections == 2
Connections == 1..MaxConnections
\* the vector size of the keyspace the DELs of several keys run on
DelVectorSize == 2
\* a connection that is not in a DEL; reply is what it sent last
Idle(reply) == [busy |-> FALSE, key_map |-> <<>>, removed |-> 0, reply |-> reply]

\* nothing encoded yet, nothing parsed yet
NothingSent == [kind |-> "nothing", s |-> <<>>, n |-> <<0, 0, 0, 0>>]
NotParsed == [done |-> FALSE]

\* a connection thread that runs no command and holds no lock
IdleWorker ==
    [pc |-> "idle", op |-> "none", key |-> <<>>, keys |-> {}, value |-> StringValue(<<>>),
     expiry |-> None, todo |-> {}, idx |-> 0, held |-> {}]

\* the threads that call GenericMaps::get
MaxGetters == 2
Getters == 1..MaxGetters
\* a thread that is in no call of get
IdleGetter == [pc |-> "idle", key |-> <<>>, now |-> 0, old |-> 0, got |-> "nothing"]

\* no selector yet
NotStarted == [ok |-> FALSE, kind |-> "NotStarted", max_value |-> 0]

Init ==
    /\ now = 0
    /\ cleanup_using_lru \in BOOLEAN
    /\ shards = [i \in ShardIds |-> build_map]
    /\ pending = [c \in Readers |-> NoKey]
    /\ maps_map = <<>>
    /\ keyspaces = <<>>
    /\ db_map_by_time = <<>>
    /\ sessions = [c \in Connections |-> Closed]
    /\ overflow_checks = FALSE
    /\ hash_builder = NotStarted
    /\ routes = <<>>
    /\ stripes = [i \in 0..(DelVectorSize - 1) |-> build_map]
    /\ deleting = [c \in Connections |-> Idle(<<>>)]
    /\ sent = NothingSent
    /\ wire = <<>>
    /\ parsed = NotParsed
    /\ gmaps = build_map
    /\ getters = [th \in Getters |-> IdleGetter]
    /\ workers = [c \in Connections |-> IdleWorker]

\* the lock of the shard of key k can be taken
Unlocked(k) == ~shards[build_hash(k)].poisoned

\* a command ends with outcome o and sends o.reply; its first read of the
\* clock gave now, its second read t2
Step(o, t2) ==
    /\ 2 \in o.reads \/ t2 = now
    /\ now' = t2
    /\ shards' = o.shards
    /\ UNCHANGED <<cleanup_using_lru, race_vars, db_vars, hash_vars, del_vars, parse_vars, generic_vars, lock_vars>>

\* time passes between two commands
Tick ==
    /\ now < MaxTime
    /\ now' = now + 1
    /\ UNCHANGED <<cleanup_using_lru, shards, race_vars, db_vars, hash_vars, del_vars, parse_vars, generic_vars, lock_vars>>

Set(k, vtok, rest) ==
    /\ Unlocked(k)
    /\ \E t2 \in now..MaxTime :
         Step(run_set_command(shards, cleanup_using_lru, k, vtok, rest, now, t2), t2)

HSet(k, toks) ==
    /\ Unlocked(k)
    /\ \E t2 \in now..MaxTime :
         Step(run_hset_command(shards, cleanup_using_lru, k, toks, now, t2), t2)

Get(k) ==
    /\ Unlocked(k)
    /\ \E t2 \in now..MaxTime :
         Step(run_get_command(shards, cleanup_using_lru, k, now, t2), t2)

HGet(k, f) ==
    /\ Unlocked(k)
    /\ \E t2 \in now..MaxTime :
         Step(run_hget_command(shards, cleanup_using_lru, k, f, now, t2), t2)

\* the orders in which hgetall may find the fields of key k
FieldOrders(k) ==
    LET sh == shards[build_hash(k)]
    IN IF k \in DOMAIN sh.map /\ sh.map[k].value.tag = "HashMapValue"
       THEN Orders(DOMAIN sh.map[k].value.h)
       ELSE {<<>>}

HGetAll(k) ==
    /\ Unlocked(k)
    /\ \E t2 \in now..MaxTime, ord \in FieldOrders(k) :
         Step(run_hgetall_command(shards, cleanup_using_lru, k, ord, now, t2), t2)

Del(ks) ==
    /\ \A k \in ks : Unlocked(k)
    /\ Step(run_del_command(shards, cleanup_using_lru, ks), now)

HDel(k, fs) ==
    /\ Unlocked(k)
    /\ Step(run_hdel_command(shards, cleanup_using_lru, k, fs), now)

FlushDb ==
    /\ \A i \in ShardIds : ~shards[i].poisoned
    /\ Step(run_flush_command(shards), now)

\* work_handler: amt = Len(buffer) bytes were read from the connection; the
\* requests of the buffer run one after the other, the clock reading now
Receive(buffer) ==
    /\ \A i \in ShardIds : ~shards[i].poisoned
    /\ shards' = resp_parse(shards, cleanup_using_lru, buffer, Len(buffer), now).shards
    /\ UNCHANGED <<now, cleanup_using_lru, race_vars, db_vars, hash_vars, del_vars, parse_vars, generic_vars, lock_vars>>

---------------------------------------------------------------------------
(* The inputs *)

\* "PX"
PX == RespBinaryString(<<80, 88>>)

\* SET: a string or an integer with no option or with PX 1..MaxTtl; and, with
\* the value "x": PX 0, ex 0, px with the bulk string "1", PX with the bulk
\* string "-", an option that is none, PX with no number; and a value token
\* that is neither string nor integer
SetInputs ==
    ({RespBinaryString(v) : v \in StringValues} \cup {RespInteger(n) : n \in IntValues})
        \X ({<<>>} \cup {<<PX, RespInteger(n)>> : n \in Ttls})
    \cup {RespBinaryString(<<120>>)}
        \X {<<PX, RespInteger(0)>>,
            <<RespBinaryString(<<101, 120>>), RespInteger(0)>>,
            <<RespBinaryString(<<112, 120>>), RespBinaryString(<<49>>)>>,
            <<PX, RespBinaryString(<<45>>)>>,
            <<RespBinaryString(<<80, 80>>), RespInteger(1)>>,
            <<PX>>}
    \cup {<<RespNullString, <<>>>>}

\* the tokens after the key of HSET: one to MaxPairs pairs of a field and a
\* value (field "f" with every value, the other fields with "x"); a pair
\* whose field token is an integer; a field with no value
MaxPairs == 2
HSetPairs ==
    {<<RespBinaryString(<<102>>), RespBinaryString(v)>> : v \in HashValues}
        \cup {<<RespBinaryString(f), RespBinaryString(<<120>>)>> : f \in Fields}
RECURSIVE HSetTokensOf(_)
HSetTokensOf(n) ==
    IF n = 0 THEN {<<>>}
    ELSE {p \o q : p \in HSetTokensOf(n - 1), q \in HSetPairs}
HSetTokens ==
    UNION {HSetTokensOf(n) : n \in 1..MaxPairs}
        \cup {<<RespInteger(7), RespBinaryString(<<120>>)>>, <<RespBinaryString(<<102>>)>>}

\* the requests a buffer is made of: well formed ones
Requests ==
    {\* SET a x
     <<42, 51, 13, 10, 36, 51, 13, 10, 83, 69, 84, 13, 10, 36, 49, 13, 10, 97, 13, 10, 36, 49, 13, 10, 120, 13, 10>>,
     \* get a
     <<42, 50, 13, 10, 36, 51, 13, 10, 103, 101, 116, 13, 10, 36, 49, 13, 10, 97, 13, 10>>,
     \* Del a
     <<42, 50, 13, 10, 36, 51, 13, 10, 68, 101, 108, 13, 10, 36, 49, 13, 10, 97, 13, 10>>,
     \* PING (inline)
     <<80, 73, 78, 71, 13, 10>>}

\* pieces that are not a whole request
Fragments ==
    {\* PING whose line ends after the \r
     <<80, 73, 78, 71, 13>>,
     \* GET announced with two tokens, one sent
     <<42, 50, 13, 10, 36, 51, 13, 10, 71, 69, 84, 13, 10>>,
     \* a bulk string shorter than its length
     <<36, 53, 13, 10, 97, 98, 13, 10>>,
     \* a bulk string of length -2
     <<36, 45, 50, 13, 10>>,
     \* an array whose length is no number
     <<42, 120, 13, 10>>,
     \* SET a x without the last \n
     <<42, 51, 13, 10, 36, 51, 13, 10, 83, 69, 84, 13, 10, 36, 49, 13, 10, 97, 13, 10, 36, 49, 13, 10, 120, 13>>}

\* a received buffer: up to MaxRequests requests or fragments
MaxRequests == 2
RECURSIVE BuffersOf(_)
BuffersOf(n) ==
    IF n = 0 THEN {<<>>}
    ELSE {p \o q : p \in BuffersOf(n - 1), q \in Requests \cup Fragments}
Buffers == UNION {BuffersOf(n) : n \in 1..MaxRequests}

Next ==
    \/ Tick
    \/ \E in \in SetInputs, k \in Keys : Set(k, in[1], in[2])
    \/ \E k \in Keys, toks \in HSetTokens : HSet(k, toks)
    \/ \E k \in Keys : Get(k)
    \/ \E k \in Keys, f \in Fields : HGet(k, f)
    \/ \E k \in Keys : HGetAll(k)
    \/ \E ks \in SUBSET Keys : Del(ks)
    \/ \E k \in Keys, fs \in SUBSET Fields : HDel(k, fs)
    \/ FlushDb

Spec == Init /\ [][Next]_vars

\* the same with the requests arriving as bytes that resp_parse parses
NextWire ==
    \/ Next
    \/ \E buffer \in Buffers : Receive(buffer)

SpecWire == Init /\ [][NextWire]_vars

---------------------------------------------------------------------------
(* worker_data.rs: a read in two steps.  WorkerData::get, hget and hgetall  *)
(* take the shared lock of the shard, and when the read returns Expired     *)
(* they drop it, take the exclusive lock and call removekey.  Between the   *)
(* two locks the commands of the other connections run.                     *)

\* the GetResult of the three reads of key k
ReadResults(k) ==
    {get_result(shards[build_hash(k)], k, now)}
        \cup {hget_result(shards[build_hash(k)], k, f, now) : f \in Fields}
        \cup {hgetall_result(shards[build_hash(k)], k, now)}

\* reader c finds k expired under the shared lock and drops the lock
ReadExpired(c, k) ==
    /\ pending[c] = NoKey
    /\ Unlocked(k)
    /\ "Expired" \in ReadResults(k)
    /\ pending' = [pending EXCEPT ![c] = k]
    /\ UNCHANGED <<now, cleanup_using_lru, shards, db_vars, hash_vars, del_vars, parse_vars, generic_vars, lock_vars>>

\* what the removekey of reader c leaves of the shard of its key
AfterReadRemove(c) ==
    removekey(shards[build_hash(pending[c])], pending[c], cleanup_using_lru)

\* reader c takes the exclusive lock, calls removekey and replies $-1
ReadRemove(c) ==
    /\ pending[c] # NoKey
    /\ Unlocked(pending[c])
    /\ shards' = [shards EXCEPT ![build_hash(pending[c])] = AfterReadRemove(c)]
    /\ pending' = [pending EXCEPT ![c] = NoKey]
    /\ UNCHANGED <<now, cleanup_using_lru, db_vars, hash_vars, del_vars, parse_vars, generic_vars, lock_vars>>

\* the commands of Next come from any connection that is not between the two
\* locks of a read
NextRace ==
    \/ Next
    \/ \E c \in Readers, k \in Keys : ReadExpired(c, k)
    \/ \E c \in Readers : ReadRemove(c)

SpecRace == Init /\ [][NextRace]_vars

---------------------------------------------------------------------------
(* The directory and its connections.  The keyspaces are those of           *)
(* keyspaces; a connection is bound by its session.                         *)

\* the directory of the current state
Dir == [maps_map |-> maps_map, keyspaces |-> keyspaces, map_by_time |-> db_map_by_time]

\* connection c ends a command: its session and the directory are those of r
DbStep(c, r) ==
    /\ sessions' = [sessions EXCEPT ![c] = r.session]
    /\ maps_map' = r.dir.maps_map
    /\ keyspaces' = r.dir.keyspaces
    /\ db_map_by_time' = r.dir.map_by_time
    /\ UNCHANGED <<now, cleanup_using_lru, shards, race_vars, hash_vars, del_vars, parse_vars, generic_vars, lock_vars>>

\* the shards connection c is bound to
CurrentDb(c) == keyspaces[sessions[c].current_db]

\* the directory after a key command of connection c with outcome o
AfterKeyCommand(c, o) == [session |-> sessions[c], dir |-> OnCurrentDb(sessions[c], Dir, o, now)]

\* work_handler starts: the session is WorkerData::new("0")
Connect(c) ==
    /\ ~sessions[c].open
    /\ DbStep(c, WorkerData_new(Dir, <<48>>))

Select(c, v) ==
    /\ sessions[c].open
    /\ DbStep(c, run_select_command(sessions[c], Dir, v))

CreateDb(c, v) ==
    /\ sessions[c].open
    /\ DbStep(c, run_createdb_command(sessions[c], Dir, v, now))

LoadDb(c, v, loaded) ==
    /\ sessions[c].open
    /\ DbStep(c, run_loaddb_command(sessions[c], Dir, v, now, loaded))

\* SET k x, GET k and DEL k on the keyspace of the connection
DbSet(c, k) ==
    /\ sessions[c].open
    /\ DbStep(c, AfterKeyCommand(c, run_set_command(CurrentDb(c), cleanup_using_lru, k,
                                                    RespBinaryString(<<120>>), <<>>, now, now)))

DbGet(c, k) ==
    /\ sessions[c].open
    /\ DbStep(c, AfterKeyCommand(c, run_get_command(CurrentDb(c), cleanup_using_lru, k, now, now)))

DbDel(c, k) ==
    /\ sessions[c].open
    /\ DbStep(c, AfterKeyCommand(c, run_del_command(CurrentDb(c), cleanup_using_lru, {k})))

\* FLUSHDB or FLUSHALL (the name s) on the connection: run_command sends both
\* to run_flush_command
DbFlush(c, s) ==
    /\ sessions[c].open
    /\ DbStep(c, AfterKeyCommand(c, run_command(CurrentDb(c), cleanup_using_lru,
                                                RespArray(<<RespBinaryString(s)>>), now)))

\* "FLUSHDB", "FLUSHALL"
FLUSHDB == <<70, 76, 85, 83, 72, 68, 66>>
FLUSHALL == <<70, 76, 85, 83, 72, 65, 76, 76>>

\* the names of databases: "0", "a", the two bytes of e-acute; and two that
\* are no UTF-8: the byte 0xFF, and 0xC3 without its second byte
DbNames == {<<48>>, <<97>>, <<195, 169>>}
BadDbNames == {<<255>>, <<195>>}
\* the key of the key commands
DbKeys == {<<97>>}

\* the arrays of SELECT, CREATEDB and LOADDB: a name; an integer for a name;
\* no name
RebindArrays ==
    {<<RespBinaryString(<<>>), RespBinaryString(n)>> : n \in DbNames \cup BadDbNames}
        \cup {<<RespBinaryString(<<>>), RespInteger(0)>>, <<RespBinaryString(<<>>)>>}

NextDb ==
    \/ Tick
    \/ \E c \in Connections : Connect(c)
    \/ \E c \in Connections, v \in RebindArrays : Select(c, v)
    \/ \E c \in Connections, v \in RebindArrays : CreateDb(c, v)
    \/ \E c \in Connections, v \in RebindArrays, loaded \in LoadResults : LoadDb(c, v, loaded)
    \/ \E c \in Connections, k \in DbKeys : DbSet(c, k)
    \/ \E c \in Connections, k \in DbKeys : DbGet(c, k)
    \/ \E c \in Connections, k \in DbKeys : DbDel(c, k)
    \/ \E c \in Connections, s \in {FLUSHDB, FLUSHALL} : DbFlush(c, s)

SpecDb == Init /\ [][NextDb]_vars

---------------------------------------------------------------------------
(* common_maps.rs, tests: a shard driven by set and removekey alone, as     *)
(* test_set_delete, test_cleanup and test_cleanup2 drive it                 *)

\* the values the tests store: "x", "yy", 7 and the string of BigLen bytes
TestValues ==
    {StringValue(v) : v \in HashValues \cup {BigValue}} \cup {IntValue(n) : n \in IntValues}
\* the expiry argument of set
TestExpiries == {None} \cup Ttls

\* maps.set(&key, value, expiry, start_time)
TestSet(k, vh, expiry) ==
    /\ Unlocked(k)
    /\ shards' = [shards EXCEPT ![build_hash(k)] =
                      set(@, k, vh, expiry, now, now, cleanup_using_lru).shard]
    /\ UNCHANGED <<now, cleanup_using_lru, race_vars, db_vars, hash_vars, del_vars, parse_vars, generic_vars, lock_vars>>

\* maps.removekey(&key)
TestRemove(k) ==
    /\ Unlocked(k)
    /\ shards' = [shards EXCEPT ![build_hash(k)] = removekey(@, k, cleanup_using_lru)]
    /\ UNCHANGED <<now, cleanup_using_lru, race_vars, db_vars, hash_vars, del_vars, parse_vars, generic_vars, lock_vars>>

NextTest ==
    \/ Tick
    \/ \E k \in Keys, vh \in TestValues, expiry \in TestExpiries : TestSet(k, vh, expiry)
    \/ \E k \in Keys : TestRemove(k)

SpecTest == Init /\ [][NextTest]_vars

---------------------------------------------------------------------------
(* resp_encoder.rs and resp_parser.rs: what one side encodes, the other     *)
(* parses.  An integer is kept at the width of isize.                       *)

\* resp_encode_int at the width of isize
resp_encode_isize(value) == <<58>> \o isize_to_string(value) \o RN

\* a token RespInteger whose number is kept at the width of isize
RespIsize(n) == [t |-> "RespInteger", n |-> n]

\* parse_tokens on an encoded integer: parse_token sends ':' to parse_number
parse_tokens_isize(buffer, amt, checks) ==
    LET r == parse_number_isize(buffer, 1, amt, checks)
    IN IF r.panic THEN [ok |-> FALSE, panic |-> TRUE]
       ELSE IF ~r.ok \/ r.idx # amt THEN [ok |-> FALSE, panic |-> FALSE]
       ELSE [ok |-> TRUE, panic |-> FALSE, tokens |-> <<RespIsize(r.n)>>]

\* the peer encodes the byte string b as a bulk string
EncodeString(b) ==
    /\ sent' = [kind |-> "string", s |-> b, n |-> usize(0)]
    /\ wire' = resp_encode_binary_string(b)
    /\ parsed' = NotParsed
    /\ UNCHANGED <<now, cleanup_using_lru, shards, race_vars, db_vars, hash_vars, del_vars, generic_vars, lock_vars>>

\* the peer encodes the integer x
EncodeInt(x) ==
    /\ sent' = [kind |-> "int", s |-> <<>>, n |-> x]
    /\ wire' = resp_encode_isize(x)
    /\ parsed' = NotParsed
    /\ UNCHANGED <<now, cleanup_using_lru, shards, race_vars, db_vars, hash_vars, del_vars, generic_vars, lock_vars>>

\* the peer sends the bytes of buffer as they are
Arrive(buffer) ==
    /\ sent' = [kind |-> "bytes", s |-> buffer, n |-> usize(0)]
    /\ wire' = buffer
    /\ parsed' = NotParsed
    /\ UNCHANGED <<now, cleanup_using_lru, shards, race_vars, db_vars, hash_vars, del_vars, generic_vars, lock_vars>>

\* resp_parse calls parse_tokens on the received bytes, in a build with or
\* without overflow checks
Parse(checks) ==
    /\ sent.kind # "nothing"
    /\ ~parsed.done
    /\ parsed' = [done |-> TRUE, checks |-> checks,
                  r |-> IF sent.kind = "int" THEN parse_tokens_isize(wire, Len(wire), checks)
                        ELSE parse_tokens(wire, Len(wire))]
    /\ UNCHANGED <<now, cleanup_using_lru, shards, race_vars, db_vars, hash_vars, del_vars,
                   sent, wire, generic_vars, lock_vars>>

\* the byte strings of at most MaxWire bytes from \r, \n and "a"
MaxWire == 3
RECURSIVE WireStringsOf(_)
WireStringsOf(n) ==
    IF n = 0 THEN {<<>>}
    ELSE {p \o <<c>> : p \in WireStringsOf(n - 1), c \in {13, 10, 97}}
WireStrings == UNION {WireStringsOf(n) : n \in 0..MaxWire}

\* the integers -MaxInt..MaxInt, and the lowest and highest isize with their
\* neighbours
MaxInt == 12
SmallInts == (0 - MaxInt)..MaxInt
WireInts ==
    {isize(n) : n \in SmallInts}
        \cup {isize_MIN, add(isize_MIN, usize(1)).v, isize_MAX, sub(isize_MAX, usize(1)).v}

\* received bytes with a length that is negative and not -1
NegativeLengths ==
    {\* $-2
     <<36, 45, 50, 13, 10>>,
     \* *-2
     <<42, 45, 50, 13, 10>>,
     \* *1 $-3
     <<42, 49, 13, 10, 36, 45, 51, 13, 10>>}
\* with a length or an element count that reaches past the received bytes
PastTheEnd ==
    {\* $5 ab
     <<36, 53, 13, 10, 97, 98, 13, 10>>,
     \* $1 a, without the \r\n after the payload
     <<36, 49, 13, 10, 97>>,
     \* *2 $1 a
     <<42, 50, 13, 10, 36, 49, 13, 10, 97, 13, 10>>}
\* with a payload that other bytes than \r\n follow
NoCrLfAfterPayload ==
    {\* $1 a X Y
     <<36, 49, 13, 10, 97, 88, 89>>,
     \* $1 a \r X
     <<36, 49, 13, 10, 97, 13, 88>>,
     \* *1 $4 PING a b
     <<42, 49, 13, 10, 36, 52, 13, 10, 80, 73, 78, 71, 97, 98>>}

\* received bytes that are no encoding of the peer's
WireBuffers == Fragments \cup NegativeLengths \cup PastTheEnd \cup NoCrLfAfterPayload

NextParse ==
    \/ \E b \in WireStrings : EncodeString(b)
    \/ \E x \in WireInts : EncodeInt(x)
    \/ \E buffer \in WireBuffers : Arrive(buffer)
    \/ \E checks \in BOOLEAN : Parse(checks)

SpecParse == Init /\ [][NextParse]_vars

---------------------------------------------------------------------------
(* The hash selector.  main builds it once from the arguments --hb and the  *)
(* vector size; every key command asks it for the shard of its key.         *)

\* main: the server starts with the selector name and vector_size, in a build
\* with or without overflow checks; it returns before it serves when the
\* vector size is not positive or create_hash_builder fails
Startup(name, vector_size, checks) ==
    /\ hash_builder = NotStarted
    /\ hash_builder' = IF vector_size <= 0 THEN InvalidInput
                       ELSE create_hash_builder(name, vector_size)
    /\ overflow_checks' = checks
    /\ UNCHANGED <<now, cleanup_using_lru, shards, race_vars, db_vars, routes, del_vars, parse_vars, generic_vars, lock_vars>>

\* a command on key picks the shard: idx = hash_builder.build_hash(key)
Route(key) ==
    /\ hash_builder.ok
    /\ routes' = With(routes, key, HashBuilder_build_hash(hash_builder, key, overflow_checks))
    /\ UNCHANGED <<now, cleanup_using_lru, shards, race_vars, db_vars, overflow_checks,
                   hash_builder, del_vars, parse_vars, generic_vars, lock_vars>>

\* the names given to --hb: the four create_hash_builder knows, the names of
\* the two other selectors, and one of no selector
HashNames == {"xor", "sum", "djb2", "sdbm", "zero", "xor256", "md5"}
\* the vector sizes
VectorSizes == {0, 1, 2, 3, 255, 256, 257}
\* "a", "bb", "user:1000", "session:10000"
HashKeys ==
    {<<97>>, <<98, 98>>, <<117, 115, 101, 114, 58, 49, 48, 48, 48>>,
     <<115, 101, 115, 115, 105, 111, 110, 58, 49, 48, 48, 48, 48>>}

NextHash ==
    \/ \E name \in HashNames, vector_size \in VectorSizes, checks \in BOOLEAN :
          Startup(name, vector_size, checks)
    \/ \E key \in HashKeys : Route(key)

SpecHash == Init /\ [][NextHash]_vars

---------------------------------------------------------------------------
(* worker_data.rs: DEL of several keys.  WorkerData::removekeys groups the  *)
(* keys by shard and takes the exclusive lock of one shard after the other; *)
(* between two locks the commands of the other connections run.  The        *)
(* keyspace has DelVectorSize shards and the selector "sum".                *)

\* idx = self.hash_builder.build_hash(key)
ShardOf(key) ==
    HashBuilder_build_hash(create_hash_builder("sum", DelVectorSize), key, FALSE).idx

\* the key_map of WorkerData::removekeys: shard index -> the keys of the shard
key_map_of(keys) ==
    [idx \in {ShardOf(k) : k \in keys} |-> {k \in keys : ShardOf(k) = idx}]

\* WorkerData::removekeys with no command of another connection between its
\* locks: the shards afterwards and the sum it returns
WorkerData_removekeys(ss, keys, lru) ==
    LET key_map == key_map_of(keys)
    IN [shards |-> [i \in DOMAIN ss |->
                       IF i \in DOMAIN key_map THEN RemoveAll(ss[i], key_map[i], lru)
                       ELSE ss[i]],
        count |-> SumOver(DOMAIN key_map,
                          [i \in DOMAIN key_map |-> removekeys_count(ss[i], key_map[i])])]

\* connection c runs SET k x on the keyspace
Put(c, k) ==
    /\ ~deleting[c].busy
    /\ ~stripes[ShardOf(k)].poisoned
    /\ stripes' = [stripes EXCEPT ![ShardOf(k)] =
                       set(@, k, StringValue(<<120>>), None, now, now, cleanup_using_lru).shard]
    /\ UNCHANGED <<now, cleanup_using_lru, shards, race_vars, db_vars, hash_vars, deleting, parse_vars, generic_vars, lock_vars>>

\* connection c receives DEL with the array v: run_del_command checks the
\* tokens and collects the keys, removekeys groups them by shard
DelStart(c, v) ==
    /\ ~deleting[c].busy
    /\ deleting' = [deleting EXCEPT ![c] =
           IF Len(v) >= 2 /\ \A j \in 2..Len(v) : v[j].t = "RespBinaryString"
           THEN [busy |-> TRUE, key_map |-> key_map_of({v[j].s : j \in 2..Len(v)}),
                 removed |-> 0, reply |-> <<>>]
           ELSE Idle(INVALID_COMMAND_ERROR)]
    /\ UNCHANGED <<now, cleanup_using_lru, shards, race_vars, db_vars, hash_vars, stripes, parse_vars, generic_vars, lock_vars>>

\* connection c takes the exclusive lock of shard idx and removes its keys
\* of that shard; after the last shard it replies the sum
DelShard(c, idx) ==
    /\ deleting[c].busy
    /\ idx \in DOMAIN deleting[c].key_map
    /\ ~stripes[idx].poisoned
    /\ stripes' = [stripes EXCEPT ![idx] =
                       RemoveAll(@, deleting[c].key_map[idx], cleanup_using_lru)]
    /\ LET removed == deleting[c].removed
                          + removekeys_count(stripes[idx], deleting[c].key_map[idx])
       IN deleting' = [deleting EXCEPT ![c] =
              IF DOMAIN deleting[c].key_map = {idx}
              THEN Idle(resp_encode_int(removed))
              ELSE [@ EXCEPT !.key_map = Without(@, idx), !.removed = removed]]
    /\ UNCHANGED <<now, cleanup_using_lru, shards, race_vars, db_vars, hash_vars, parse_vars, generic_vars, lock_vars>>

\* "a" and "c" (shard 1), "bb" (shard 0)
DelKeys == {<<97>>, <<98, 98>>, <<99>>}
\* the arrays of DEL: one to MaxDelKeys keys, a key listed twice included; no
\* key; an integer for a key
MaxDelKeys == 3
RECURSIVE KeyTokens(_)
KeyTokens(n) ==
    IF n = 0 THEN {<<>>}
    ELSE {p \o <<RespBinaryString(k)>> : p \in KeyTokens(n - 1), k \in DelKeys}
DelArrays ==
    {<<RespBinaryString(<<68, 69, 76>>)>> \o p : p \in UNION {KeyTokens(n) : n \in 0..MaxDelKeys}}
        \cup {<<RespBinaryString(<<68, 69, 76>>), RespInteger(1)>>}

NextDel ==
    \/ \E c \in Connections, k \in DelKeys : Put(c, k)
    \/ \E c \in Connections, v \in DelArrays : DelStart(c, v)
    \/ \E c \in Connections, idx \in 0..(DelVectorSize - 1) : DelShard(c, idx)

SpecDel == Init /\ [][NextDel]_vars

---------------------------------------------------------------------------
(* What the commands would do in the current state *)

\* the keys whose shard can still be locked
LiveKeys == {k \in Keys : Unlocked(k)}

\* the valid inputs of SET among SetInputs
ValidSetInputs ==
    {in \in SetInputs : in[1].t \in {"RespBinaryString", "RespInteger"} /\ set_expiry(in[2]).ok}

\* the outcomes of every SET, HSET, HDEL, DEL and FLUSHDB that can run now
SetOutcomes ==
    {run_set_command(shards, cleanup_using_lru, k, in[1], in[2], now, t2) :
        k \in LiveKeys, in \in SetInputs, t2 \in now..MaxTime}
HSetOutcomes ==
    {run_hset_command(shards, cleanup_using_lru, k, toks, now, t2) :
        k \in LiveKeys, toks \in HSetTokens, t2 \in now..MaxTime}
HDelOutcomes ==
    {run_hdel_command(shards, cleanup_using_lru, k, fs) :
        k \in LiveKeys, fs \in SUBSET Fields}
DelOutcomes ==
    {run_del_command(shards, cleanup_using_lru, ks) : ks \in SUBSET LiveKeys}
FlushOutcomes ==
    IF \A i \in ShardIds : ~shards[i].poisoned THEN {run_flush_command(shards)} ELSE {}

\* the sum of the record sizes of the entries of the primary map
RecordSizes(sh) ==
    SumOver(DOMAIN sh.map,
            [k \in DOMAIN sh.map |-> 3 * Len(k) + Value_size(sh.map[k]) + 16])

\* every key found in a bucket of index m or in the primary map
KeysOf(sh, m) == DOMAIN sh.map \cup UNION {m[t] : t \in DOMAIN m}

---------------------------------------------------------------------------
(* Memory accounting *)

\* C1: after every shard operation that returns success (set, hset, hdel,
\* removekeys, flush) current_memory of every shard equals the sum over the
\* primary map of 3*key.len + value.size() + 16.
C1_MemoryAccounted ==
    \A o \in SetOutcomes \cup HSetOutcomes \cup HDelOutcomes \cup DelOutcomes
                \cup FlushOutcomes :
        o.res = "Ok" =>
            \A i \in ShardIds : o.shards[i].current_memory = RecordSizes(o.shards[i])

---------------------------------------------------------------------------
(* The auxiliary indexes *)

\* k is in bucket t of map_by_expiration exactly when the primary map holds k
\* with expires_at = t
ExpirationIndexed(sh) ==
    LET m == sh.map_by_expiration
    IN \A k \in KeysOf(sh, m), t \in Times \cup DOMAIN m :
          (t \in DOMAIN m /\ k \in m[t])
              <=> (k \in DOMAIN sh.map /\ sh.map[k].expires_at = t)

\* C2: after every shard operation that does not panic, a key k is a member
\* of map_by_expiration[t] if and only if the primary map holds k with
\* expires_at = t.
C2_ExpirationIndex ==
    \A i \in ShardIds : ~shards[i].poisoned => ExpirationIndexed(shards[i])

\* a key with a deadline is given another deadline or none by a SET, and the
\* bucket of the old deadline does not hold it any more
C2_Witness ==
    \E k \in LiveKeys, in \in ValidSetInputs :
        LET sh == shards[build_hash(k)]
            o == run_set_command(shards, cleanup_using_lru, k, in[1], in[2], now, now)
            after == o.shards[build_hash(k)]
        IN /\ k \in DOMAIN sh.map
           /\ sh.map[k].expires_at # None
           /\ \E k2 \in DOMAIN sh.map : k2 # k /\ sh.map[k2].expires_at = sh.map[k].expires_at
           /\ o.res = "Ok"
           /\ after.map[k].expires_at # sh.map[k].expires_at
           /\ k \notin after.map_by_expiration[sh.map[k].expires_at]

\* k is in bucket t of map_by_time exactly when the primary map holds k with
\* last_access_time = t
AccessIndexed(sh) ==
    LET m == sh.map_by_time
    IN \A k \in KeysOf(sh, m), t \in Times \cup DOMAIN m :
          (t \in DOMAIN m /\ k \in m[t])
              <=> (k \in DOMAIN sh.map /\ sh.map[k].last_access_time = t)

\* C3: with LRU enabled, after every shard operation that does not panic
\* (the reads that find the key and move its stamp included) a key k is a
\* member of map_by_time[t] if and only if the primary map holds k with
\* last_access_time = t.
C3_AccessIndex ==
    cleanup_using_lru =>
        \A i \in ShardIds : ~shards[i].poisoned => AccessIndexed(shards[i])

\* with LRU enabled a GET, an HGET or an HGETALL finds a key at a later
\* millisecond than its stamp and moves it to the bucket of that millisecond,
\* away from a bucket it shared with another key
C3_Witness ==
    /\ cleanup_using_lru
    /\ \E k \in LiveKeys, f \in Fields, t2 \in now..MaxTime :
        LET sh == shards[build_hash(k)]
            o == IF k \in DOMAIN sh.map /\ sh.map[k].value.tag = "HashMapValue"
                 THEN run_hget_command(shards, TRUE, k, f, now, t2)
                 ELSE run_get_command(shards, TRUE, k, now, t2)
            after == o.shards[build_hash(k)]
        IN /\ o.res = "Found"
           /\ sh.map[k].last_access_time < t2
           /\ Cardinality(sh.map_by_time[sh.map[k].last_access_time]) = 2
           /\ after.map[k].last_access_time = t2
           /\ k \in after.map_by_time[t2]
           /\ k \notin after.map_by_time[sh.map[k].last_access_time]

\* no bucket of index m is the empty set
NoEmptyBucket(m) == \A t \in DOMAIN m : m[t] # {}

\* C4: in every reachable state of a shard no bucket of map_by_expiration or
\* of map_by_time is an empty set.
C4_NoEmptyBucket ==
    \A i \in ShardIds :
        NoEmptyBucket(shards[i].map_by_expiration) /\ NoEmptyBucket(shards[i].map_by_time)

\* the last key of a bucket of each index leaves it (by DEL) and the time key
\* of the bucket is gone from the index
C4_Witness ==
    /\ cleanup_using_lru
    /\ \E k \in LiveKeys :
        LET sh == shards[build_hash(k)]
            o == run_del_command(shards, TRUE, {k})
            after == o.shards[build_hash(k)]
        IN /\ k \in DOMAIN sh.map
           /\ sh.map[k].expires_at # None
           /\ sh.map_by_expiration[sh.map[k].expires_at] = {k}
           /\ sh.map_by_time[sh.map[k].last_access_time] = {k}
           /\ Cardinality(DOMAIN sh.map) = 2
           /\ sh.map[k].expires_at \notin DOMAIN after.map_by_expiration
           /\ sh.map[k].last_access_time \notin DOMAIN after.map_by_time
           /\ DOMAIN after.map_by_time # {}

---------------------------------------------------------------------------
(* The memory budget *)

\* C5: after every successful set or hset, with LRU enabled or disabled, the
\* shard's current_memory is strictly below max_memory, the budget of the
\* keyspace divided by the number of shards.
C5_BelowBudget ==
    \A o \in SetOutcomes \cup HSetOutcomes :
        o.res = "Ok" => \A i \in ShardIds : o.shards[i].current_memory < max_memory

---------------------------------------------------------------------------
(* Commands that follow one another on a connection *)

\* the byte strings SET is tried with
SetStrings == StringValues \cup {<<>>, <<121, 121>>}

\* C6: if SET k v with no TTL and a byte string v replies +OK and the next
\* command is GET k, GET replies the bulk string v, whatever k held before.
C6_SetThenGet ==
    \A k \in LiveKeys, v \in SetStrings, t2 \in now..MaxTime :
        LET o == run_set_command(shards, cleanup_using_lru, k, RespBinaryString(v),
                                 <<>>, now, t2)
        IN o.reply = OK =>
              \A t3 \in t2..MaxTime, t4 \in t2..MaxTime :
                  t3 <= t4 =>
                      run_get_command(o.shards, cleanup_using_lru, k, t3, t4).reply
                          = <<36>> \o to_string(Len(v)) \o <<13, 10>> \o v \o <<13, 10>>

\* a key that holds a hash, and one that holds a string with a deadline, is
\* SET to "yy", and the GET that follows replies $2 yy
C6_Witness ==
    \E k \in LiveKeys, k2 \in LiveKeys :
        LET o == run_set_command(shards, cleanup_using_lru, k,
                                 RespBinaryString(<<121, 121>>), <<>>, now, now)
            o2 == run_set_command(shards, cleanup_using_lru, k2,
                                  RespBinaryString(<<121, 121>>), <<>>, now, now)
        IN /\ k \in DOMAIN shards[build_hash(k)].map
           /\ shards[build_hash(k)].map[k].value.tag = "HashMapValue"
           /\ k2 \in DOMAIN shards[build_hash(k2)].map
           /\ shards[build_hash(k2)].map[k2].expires_at # None
           /\ o.reply = OK
           /\ o2.reply = OK
           /\ run_get_command(o.shards, cleanup_using_lru, k, now, now).reply
                 = <<36, 50, 13, 10, 121, 121, 13, 10>>
           /\ run_get_command(o2.shards, cleanup_using_lru, k2, now, now).reply
                 = <<36, 50, 13, 10, 121, 121, 13, 10>>

\* C7: if HSET k f v succeeds and the next command is HGET k f, HGET replies
\* the bulk string v; HGET of a field that the hash of k does not contain
\* replies the null bulk string.
C7_HSetThenHGet ==
    \A k \in LiveKeys, f \in Fields, t2 \in now..MaxTime :
        /\ \A v \in HashValues :
              LET o == run_hset_command(shards, cleanup_using_lru, k,
                           <<RespBinaryString(f), RespBinaryString(v)>>, now, t2)
              IN o.res = "Ok" =>
                    \A t3 \in t2..MaxTime, t4 \in t2..MaxTime :
                        t3 <= t4 =>
                           run_hget_command(o.shards, cleanup_using_lru, k, f, t3, t4).reply
                               = <<36>> \o to_string(Len(v)) \o <<13, 10>> \o v \o <<13, 10>>
        /\ LET sh == shards[build_hash(k)]
           IN (/\ k \in DOMAIN sh.map
               /\ sh.map[k].value.tag = "HashMapValue"
               /\ f \notin DOMAIN sh.map[k].value.h)
                  => run_hget_command(shards, cleanup_using_lru, k, f, now, t2).reply
                         = <<36, 45, 49, 13, 10>>

\* the hash of k holds f with the value "x" and does not hold g; HSET k f yy
\* replies :0, the HGET k f that follows replies $2 yy, and HGET k g replies
\* $-1
C7_Witness ==
    \E k \in LiveKeys :
        LET sh == shards[build_hash(k)]
            o == run_hset_command(shards, cleanup_using_lru, k,
                     <<RespBinaryString(<<102>>), RespBinaryString(<<121, 121>>)>>, now, now)
        IN /\ k \in DOMAIN sh.map
           /\ sh.map[k].value.tag = "HashMapValue"
           /\ DOMAIN sh.map[k].value.h = {<<102>>}
           /\ sh.map[k].value.h[<<102>>] = <<120>>
           /\ o.reply = <<58, 48, 13, 10>>
           /\ run_hget_command(o.shards, cleanup_using_lru, k, <<102>>, now, now).reply
                 = <<36, 50, 13, 10, 121, 121, 13, 10>>
           /\ run_hget_command(o.shards, cleanup_using_lru, k, <<103>>, now, now).reply
                 = <<36, 45, 49, 13, 10>>

\* C8: after SET k v succeeds, DEL k replies :1 and a following GET k replies
\* the null bulk string; the key is gone from the primary map and from both
\* indexes.
C8_SetDelGet ==
    \A k \in LiveKeys, in \in ValidSetInputs, t2 \in now..MaxTime :
        LET o == run_set_command(shards, cleanup_using_lru, k, in[1], in[2], now, t2)
            d == run_del_command(o.shards, cleanup_using_lru, {k})
            after == d.shards[build_hash(k)]
        IN o.res = "Ok" =>
              /\ d.reply = <<58, 49, 13, 10>>
              /\ \A t3 \in t2..MaxTime :
                    run_get_command(d.shards, cleanup_using_lru, k, t3, t3).reply
                        = <<36, 45, 49, 13, 10>>
              /\ k \notin KeysOf(after, after.map_by_time)
              /\ k \notin KeysOf(after, after.map_by_expiration)

\* with LRU enabled a key is SET with a deadline next to another key with the
\* same stamp and deadline, so that it is in the primary map and in a bucket
\* of each index; DEL replies :1 and leaves the other key where it was
C8_Witness ==
    /\ cleanup_using_lru
    /\ \E k \in LiveKeys, k2 \in LiveKeys :
        LET o == run_set_command(shards, TRUE, k, RespBinaryString(<<120>>),
                                 <<PX, RespInteger(1)>>, now, now)
            mid == o.shards[build_hash(k)]
            d == run_del_command(o.shards, TRUE, {k})
            after == d.shards[build_hash(k)]
        IN /\ o.res = "Ok"
           /\ k2 # k
           /\ mid.map_by_time[now] = {k, k2}
           /\ mid.map_by_expiration[now + 1] = {k, k2}
           /\ d.reply = <<58, 49, 13, 10>>
           /\ after.map_by_time[now] = {k2}
           /\ after.map_by_expiration[now + 1] = {k2}
           /\ DOMAIN after.map = {k2}

\* C9: when HDEL removes the last remaining field of a hash the key is removed
\* from the shard, and a following HGETALL k replies the null array.
C9_LastFieldRemovesKey ==
    \A k \in LiveKeys, fs \in (SUBSET Fields) \ {{}} :
        LET sh == shards[build_hash(k)]
            d == run_hdel_command(shards, cleanup_using_lru, k, fs)
        IN (/\ k \in DOMAIN sh.map
            /\ sh.map[k].value.tag = "HashMapValue"
            /\ DOMAIN sh.map[k].value.h \subseteq fs)
               => /\ k \notin DOMAIN d.shards[build_hash(k)].map
                  /\ run_hgetall_command(d.shards, cleanup_using_lru, k, <<>>, now, now).reply
                        = <<42, 45, 49, 13, 10>>

---------------------------------------------------------------------------
(* Out of memory *)

\* the keys whose deadline lies before t
ExpiredBefore(sh, t) ==
    {k \in DOMAIN sh.map : sh.map[k].expires_at # None /\ sh.map[k].expires_at < t}

\* the record size of the entry of key k
RecordSize(sh, k) == 3 * Len(k) + Value_size(sh.map[k]) + 16

\* C10: with LRU disabled, a set whose record does not fit in the budget of
\* the shard even after the expired sweep fails with OutOfMemory and the reply
\* -out of memory; the size of the new record is taken off current_memory
\* again, and every entry that is not expired, a previous value of the same
\* key included, is left as it was.
C10_OutOfMemory ==
    ~cleanup_using_lru =>
        \A k \in LiveKeys, in \in ValidSetInputs, t2 \in now..MaxTime :
            LET sh == shards[build_hash(k)]
                size == 3 * Len(k) + 16
                          + (IF in[1].t = "RespBinaryString" THEN Len(in[1].s) ELSE 8)
                gone == ExpiredBefore(sh, t2)
                freed == SumOver(gone, [x \in gone |-> RecordSize(sh, x)])
                o == run_set_command(shards, FALSE, k, in[1], in[2], now, t2)
                after == o.shards[build_hash(k)]
            IN sh.current_memory + size - freed >= max_memory =>
                  /\ o.res = "OutOfMemory"
                  /\ o.reply = <<45, 111, 117, 116, 32, 111, 102, 32, 109, 101, 109,
                                 111, 114, 121, 13, 10>>
                  /\ after.current_memory = sh.current_memory - freed
                  /\ \A x \in DOMAIN sh.map \ gone :
                        x \in DOMAIN after.map /\ after.map[x] = sh.map[x]
                  /\ \A i \in ShardIds \ {build_hash(k)} : o.shards[i] = shards[i]

\* with LRU disabled the shard holds a key whose deadline has passed and a
\* key that is not expired; a SET of the big string on the second key sweeps
\* the first, fails with -out of memory and leaves the second as it was
C10_Witness ==
    /\ ~cleanup_using_lru
    /\ \E k \in LiveKeys, t2 \in now..MaxTime :
        LET sh == shards[build_hash(k)]
            o == run_set_command(shards, FALSE, k, RespBinaryString(BigValue), <<>>, now, t2)
            after == o.shards[build_hash(k)]
        IN /\ k \in DOMAIN sh.map
           /\ ExpiredBefore(sh, t2) # {}
           /\ k \notin ExpiredBefore(sh, t2)
           /\ o.res = "OutOfMemory"
           /\ DOMAIN after.map = {k}
           /\ after.map[k] = sh.map[k]
           /\ after.current_memory < sh.current_memory

---------------------------------------------------------------------------
(* Deadlines *)

\* "EX"
EX == RespBinaryString(<<69, 88>>)

\* options of SET with the TTL in ms each stands for: PX 1, PX 2, EX 1,
\* ex "2", px "10"
TtlOptions ==
    {<<<<PX, RespInteger(n)>>, n>> : n \in 1..2}
        \cup {<<<<EX, RespInteger(1)>>, 1000>>,
              <<<<RespBinaryString(<<101, 120>>), RespBinaryString(<<50>>)>>, 2000>>,
              <<<<RespBinaryString(<<112, 120>>), RespBinaryString(<<49, 48>>)>>, 10>>}

\* C11: a key stored by SET with a TTL has the deadline created_at + ttl_ms,
\* ttl_ms being 1000*s for EX s and ms for PX ms; a GET that follows replies
\* the stored value when it reads the clock before the deadline and the null
\* bulk string when it reads the clock at or after the deadline.
C11_Deadline ==
    \A k \in LiveKeys, opt \in TtlOptions, t2 \in now..MaxTime :
        LET o == run_set_command(shards, cleanup_using_lru, k, RespBinaryString(<<120>>),
                                 opt[1], now, t2)
            deadline == now + opt[2]
        IN o.res = "Ok" =>
              /\ o.shards[build_hash(k)].map[k].expires_at = deadline
              /\ \A t \in {x \in (t2..(MaxTime + 1))
                                   \cup {deadline - 1, deadline, deadline + 1} : x >= t2} :
                    run_get_command(o.shards, cleanup_using_lru, k, t, t).reply
                        = IF t < deadline THEN <<36, 49, 13, 10, 120, 13, 10>>
                          ELSE <<36, 45, 49, 13, 10>>

\* a key the shard holds is SET with EX 1 at time 1: the deadline is 1001, GET
\* replies $1 x at 1000 and $-1 at 1001; the same key SET with PX 1 is found at
\* time 1 and not at time 2
C11_Witness ==
    /\ now = 1
    /\ \E k \in LiveKeys :
        LET o == run_set_command(shards, cleanup_using_lru, k, RespBinaryString(<<120>>),
                                 <<EX, RespInteger(1)>>, 1, 1)
            o2 == run_set_command(shards, cleanup_using_lru, k, RespBinaryString(<<120>>),
                                  <<PX, RespInteger(1)>>, 1, 1)
        IN /\ k \in DOMAIN shards[build_hash(k)].map
           /\ o.res = "Ok"
           /\ o.shards[build_hash(k)].map[k].expires_at = 1001
           /\ run_get_command(o.shards, cleanup_using_lru, k, 1000, 1000).reply
                 = <<36, 49, 13, 10, 120, 13, 10>>
           /\ run_get_command(o.shards, cleanup_using_lru, k, 1001, 1001).reply
                 = <<36, 45, 49, 13, 10>>
           /\ o2.res = "Ok"
           /\ run_get_command(o2.shards, cleanup_using_lru, k, 1, 1).reply
                 = <<36, 49, 13, 10, 120, 13, 10>>
           /\ run_get_command(o2.shards, cleanup_using_lru, k, 2, 2).reply
                 = <<36, 45, 49, 13, 10>>


\* the outcomes of GET k, HGET k f and HGETALL k when they read the clock as t
ReadOutcomes(k, f, t) ==
    {run_get_command(shards, cleanup_using_lru, k, t, t),
     run_hget_command(shards, cleanup_using_lru, k, f, t, t),
     run_hgetall_command(shards, cleanup_using_lru, k, <<>>, t, t)}

\* C12: when GET, HGET or HGETALL finds its key expired (and no other
\* connection touches the key meanwhile), after the command the key is absent
\* from the primary map, from map_by_expiration and from map_by_time, and
\* current_memory has decreased by exactly the record size of the key.
C12_ExpiredRead ==
    \A k \in LiveKeys, f \in Fields, t \in now..(MaxTime + 1) :
        \A o \in ReadOutcomes(k, f, t) :
            LET sh == shards[build_hash(k)]
                after == o.shards[build_hash(k)]
            IN o.res = "Expired" =>
                  /\ k \notin KeysOf(after, after.map_by_time)
                  /\ k \notin KeysOf(after, after.map_by_expiration)
                  /\ after.current_memory
                        = sh.current_memory - (3 * Len(k) + Value_size(sh.map[k]) + 16)
                  /\ DOMAIN after.map = DOMAIN sh.map \ {k}
                  /\ o.reply = <<36, 45, 49, 13, 10>>

\* with LRU enabled the shard holds two keys, one of them past its deadline;
\* each of GET, HGET and HGETALL on that key finds it expired and leaves the
\* other key alone in the primary map and in map_by_time
C12_Witness ==
    /\ cleanup_using_lru
    /\ \E k \in LiveKeys, k2 \in LiveKeys :
        LET sh == shards[build_hash(k)]
        IN /\ DOMAIN sh.map = {k, k2}
           /\ k # k2
           /\ sh.map[k].expires_at # None
           /\ sh.map[k].expires_at <= now
           /\ \A o \in ReadOutcomes(k, <<102>>, now) :
                 /\ o.res = "Expired"
                 /\ DOMAIN o.shards[build_hash(k)].map = {k2}
                 /\ KeysOf(o.shards[build_hash(k)], o.shards[build_hash(k)].map_by_time) = {k2}
                 /\ o.shards[build_hash(k)].current_memory < sh.current_memory

---------------------------------------------------------------------------
(* Commands against a value of the wrong kind *)

\* the keys present in the primary map of a shard that is not poisoned
HeldKeys == {k \in LiveKeys : k \in DOMAIN shards[build_hash(k)].map}

\* the commands that do not apply to the value k holds: HSET, HDEL, HGET and
\* HGETALL for a string or an integer, GET for a hash
WrongKindOutcomes(k) ==
    IF shards[build_hash(k)].map[k].value.tag = "HashMapValue"
    THEN {run_get_command(shards, cleanup_using_lru, k, now, now)}
    ELSE {run_hset_command(shards, cleanup_using_lru, k, toks, now, now) :
              toks \in {x \in HSetTokens : Len(x) % 2 = 0}}
         \cup {run_hdel_command(shards, cleanup_using_lru, k, fs) : fs \in (SUBSET Fields) \ {{}}}
         \cup {run_hget_command(shards, cleanup_using_lru, k, f, now, now) : f \in Fields}
         \cup {run_hgetall_command(shards, cleanup_using_lru, k, <<>>, now, now)}

\* C15: HSET or HDEL on a key holding a string or an integer, GET on a key
\* holding a hash, and HGET or HGETALL on a key holding a string or an integer
\* reply -Operation against a key holding the wrong kind of value, and the
\* value stored under the key is the same after the command as before it.
\* (A key past its deadline holds nothing and is left out.)
C15_WrongType ==
    \A k \in HeldKeys :
        LET v == shards[build_hash(k)].map[k]
        IN ~is_expired(v, now) =>
              \A o \in WrongKindOutcomes(k) :
                  /\ o.reply = build_wrong_data_type_error
                  /\ k \in DOMAIN o.shards[build_hash(k)].map
                  /\ o.shards[build_hash(k)].map[k] = v

---------------------------------------------------------------------------
(* A buffer that does not parse *)

\* what work_handler does with the buffer in the current state
Received(buffer) == resp_parse(shards, cleanup_using_lru, buffer, Len(buffer), now)

\* the buffer is answered with the one payload -invalid command and the
\* keyspace is as before
Rejected(buffer) == Received(buffer) = [shards |-> shards, reply |-> INVALID_COMMAND_ERROR]

\* C20: if a request of a received buffer fails to parse, or the tokens do
\* not end exactly at the end of the received bytes, the reply to the whole
\* buffer is the single payload -invalid command and no command of the buffer
\* is executed, the well-formed requests before the malformed one included:
\* the keyspace is unchanged.  Every buffer that ends in a fragment is such a
\* buffer.
C20_AllOrNothing ==
    (\A i \in ShardIds : ~shards[i].poisoned) =>
        /\ \A buffer \in Buffers :
              ~parse_tokens(buffer, Len(buffer)).ok => Rejected(buffer)
        /\ \A request \in Requests \cup {<<>>}, fragment \in Fragments :
              Rejected(request \o fragment)

\* key a holds a value; Del a alone removes it and replies :1, and Del a
\* followed by a PING line cut after its \r is rejected and leaves a
C20_Witness ==
    LET del_a == <<42, 50, 13, 10, 36, 51, 13, 10, 68, 101, 108, 13, 10, 36, 49, 13, 10, 97, 13, 10>>
    IN /\ ~shards[0].poisoned
       /\ <<97>> \in DOMAIN shards[0].map
       /\ Received(del_a).reply = <<58, 49, 13, 10>>
       /\ <<97>> \notin DOMAIN Received(del_a).shards[0].map
       /\ Received(del_a \o <<80, 73, 78, 71, 13, 10>>).reply
             = <<58, 49, 13, 10, 43, 80, 79, 78, 71, 13, 10>>
       /\ ~parse_tokens(del_a \o <<80, 73, 78, 71, 13>>, Len(del_a) + 5).ok
       /\ Rejected(del_a \o <<80, 73, 78, 71, 13>>)

---------------------------------------------------------------------------
(* A read between its two locks *)

\* the readers that found their key expired and now find a value under it
\* that is not expired: the value was stored after they dropped the lock
Overtaken == {c \in Readers : /\ pending[c] # NoKey
                              /\ Unlocked(pending[c])
                              /\ get_result(shards[build_hash(pending[c])], pending[c], now)
                                    \in {"Found", "WrongValue"}}

\* C13: when a reader found key k expired under the shared lock and, before
\* it takes the exclusive lock, another connection replaces k with a fresh
\* value that is not expired, the delete of the reader leaves the replacement
\* in place: k still holds the new value after both commands.
C13_ReplacementKept ==
    \A c \in Overtaken :
        /\ pending[c] \in DOMAIN AfterReadRemove(c).map
        /\ AfterReadRemove(c).map[pending[c]] = shards[build_hash(pending[c])].map[pending[c]]

\* what a GET of key k would reply now: the value a client sees under k
Visible(k) == run_get_command(shards, cleanup_using_lru, k, now, now).reply

\* C14: the commands of several connections on one key are linearizable.  A
\* read that replies $-1 leaves, in every sequential order, the value a
\* client sees under the key as it was; so the step that completes such a
\* read does not change it.
C14_Linearizable ==
    [][\A c \in Readers :
          (pending[c] # NoKey /\ pending'[c] = NoKey /\ Unlocked(pending[c]))
              => Visible(pending[c])' = Visible(pending[c])]_vars

---------------------------------------------------------------------------
(* The database directory *)

\* the connections with a session
Open == {c \in Connections : sessions[c].open}

\* the array of a request with one name
Named(n) == <<RespBinaryString(<<>>), RespBinaryString(n)>>

\* the keys stored in the keyspace under name n of directory d
StoredIn(d, n) == UNION {DOMAIN d.keyspaces[d.maps_map[n]][i].map : i \in ShardIds}

\* C16: SELECT of a name that is not resident creates an empty keyspace under
\* that name and replies +OK; CREATEDB of a name that is resident replies
\* -database already exists, does not replace or empty the keyspace, and
\* leaves the session bound to the keyspace it had before the command.
C16_SelectCreatesCreateDbRefuses ==
    \A c \in Open, n \in DbNames :
        IF n \notin DOMAIN maps_map
        THEN LET r == run_select_command(sessions[c], Dir, Named(n))
             IN /\ r.reply = <<43, 79, 75, 13, 10>>
                /\ DOMAIN r.dir.maps_map = DOMAIN maps_map \cup {n}
                /\ r.dir.maps_map[n] \notin DOMAIN keyspaces
                /\ StoredIn(r.dir, n) = {}
                /\ \A m \in DOMAIN maps_map :
                      /\ r.dir.maps_map[m] = maps_map[m]
                      /\ r.dir.keyspaces[maps_map[m]] = keyspaces[maps_map[m]]
        ELSE LET r == run_createdb_command(sessions[c], Dir, Named(n), now)
             IN /\ r.reply = DATABASE_ALREADY_EXISTS
                /\ r.dir.maps_map = maps_map
                /\ r.dir.keyspaces = keyspaces
                /\ r.session = sessions[c]

\* database "a" is resident and holds a key, a connection is bound to "0":
\* its CREATEDB a is refused and a keeps its key; the database of the two-byte
\* name is not resident, and SELECT creates it
C16_Witness ==
    /\ <<97>> \in DOMAIN maps_map
    /\ StoredIn(Dir, <<97>>) # {}
    /\ <<195, 169>> \notin DOMAIN maps_map
    /\ \E c \in Open :
          /\ sessions[c].current_db_name = <<48>>
          /\ run_createdb_command(sessions[c], Dir, Named(<<97>>), now).reply
                = DATABASE_ALREADY_EXISTS
          /\ StoredIn(run_createdb_command(sessions[c], Dir, Named(<<97>>), now).dir, <<97>>) # {}
          /\ run_select_command(sessions[c], Dir, Named(<<195, 169>>)).session.current_db_name
                = <<195, 169>>

\* C17: the number of keyspaces resident in the directory never exceeds
\* max_open_databases, whatever SELECT, CREATEDB and LOADDB commands the
\* connections issue.
C17_ResidentCap == Cardinality(DOMAIN maps_map) <= max_open_databases

\* the names CREATEDB (or a LOADDB that loaded) has stamped, and the stamp
Stamped == UNION {db_map_by_time[t] : t \in DOMAIN db_map_by_time}
Stamp(n) == CHOOSE t \in DOMAIN db_map_by_time : n \in db_map_by_time[t]

\* C18: when max_open_databases + 1 distinct databases have been created, one
\* of them is no longer resident, and it is the least recently accessed one.
C18_LeastRecentEvicted ==
    Cardinality(Stamped) = max_open_databases + 1 =>
        \E d \in Stamped :
            /\ d \notin DOMAIN maps_map
            /\ Stamped \ {d} \subseteq DOMAIN maps_map
            /\ \A e \in Stamped : Stamp(d) <= Stamp(e)

\* the outcomes of SELECT, CREATEDB and LOADDB of connection c with the name n
Rebinds(c, n) ==
    {run_select_command(sessions[c], Dir, Named(n)),
     run_createdb_command(sessions[c], Dir, Named(n), now)}
        \cup {run_loaddb_command(sessions[c], Dir, Named(n), now, loaded) : loaded \in LoadResults}

\* the outcomes of the key commands of connection c on the shards ss
KeyOutcomes(ss) ==
    UNION {{run_set_command(ss, cleanup_using_lru, k, RespBinaryString(<<120>>), <<>>, now, now),
            run_get_command(ss, cleanup_using_lru, k, now, now),
            run_del_command(ss, cleanup_using_lru, {k})} : k \in DbKeys}

\* C19: a session is bound to keyspace "0" before its first command; after a
\* successful SELECT, CREATEDB or LOADDB of name n the key commands of the
\* connection operate on keyspace n, until the next successful rebind; a
\* rebind whose name is no UTF-8 replies -invalid database name and leaves the
\* binding as it was.
C19_Binding ==
    /\ \A c \in Connections \ Open :
          LET r == WorkerData_new(Dir, <<48>>)
          IN /\ r.session.open
             /\ r.session.current_db_name = <<48>>
             /\ r.session.current_db = r.dir.maps_map[<<48>>]
    /\ \A c \in Open :
          /\ sessions[c].current_db_name \in DOMAIN maps_map
          /\ \A o \in KeyOutcomes(keyspaces[maps_map[sessions[c].current_db_name]]) :
                AfterKeyCommand(c, o).dir.keyspaces
                    = [keyspaces EXCEPT ![maps_map[sessions[c].current_db_name]] = o.shards]
          /\ \A n \in DbNames : \A r \in Rebinds(c, n) :
                IF r.reply = <<43, 79, 75, 13, 10>>
                THEN /\ r.session.current_db_name = n
                     /\ r.session.current_db = r.dir.maps_map[n]
                ELSE r.session = sessions[c]
          /\ \A n \in BadDbNames : \A r \in Rebinds(c, n) :
                /\ r.reply = INVALID_DATABASE_NAME
                /\ r.session = sessions[c]
                /\ r.dir = Dir

\* a connection is bound to "a" and the other to "0"; keyspace a holds a key
\* and keyspace "0" holds none: the SET went to the keyspace of the binding
C19_Witness ==
    /\ {<<48>>, <<97>>} \subseteq DOMAIN maps_map
    /\ StoredIn(Dir, <<97>>) # {}
    /\ StoredIn(Dir, <<48>>) = {}
    /\ \E c, c2 \in Open :
          /\ sessions[c].current_db_name = <<97>>
          /\ sessions[c2].current_db_name = <<48>>
          /\ run_select_command(sessions[c], Dir, Named(<<255>>)).reply = INVALID_DATABASE_NAME
          /\ run_select_command(sessions[c], Dir, Named(<<255>>)).session.current_db_name = <<97>>

---------------------------------------------------------------------------
(* The requests of one buffer *)

\* requests that are answered with an error, or not at all: a command the
\* dispatcher does not know (*1 $1 x), and SET bb with the big string
ErrorRequests ==
    {<<42, 49, 13, 10, 36, 49, 13, 10, 120, 13, 10>>,
     <<42, 51, 13, 10, 36, 51, 13, 10, 83, 69, 84, 13, 10, 36, 50, 13, 10, 98, 98, 13, 10,
       36>> \o to_string(BigLen) \o <<13, 10>> \o BigValue \o <<13, 10>>}

\* the buffer of the requests r1 and r2 is answered as r1 and then r2, each
\* received alone, are: r2 runs on the keyspace r1 left, and the reply is the
\* reply of r1 followed by that of r2, one payload each
InOrder(r1, r2) ==
    LET a == Received(r1)
        b == resp_parse(a.shards, cleanup_using_lru, r2, Len(r2), now)
    IN /\ a.reply # <<>>
       /\ b.reply # <<>>
       /\ Received(r1 \o r2) = [shards |-> b.shards, reply |-> a.reply \o b.reply]

\* C21: a buffer that parses into n requests is answered with the n replies
\* in the order of the requests; request i runs after request i-1 has
\* finished and sees its effects, and a request that is answered with an
\* error does not stop the requests after it.
C21_InOrder ==
    (\A i \in ShardIds : ~shards[i].poisoned) =>
        \A r1 \in Requests \cup ErrorRequests, r2 \in Requests \cup ErrorRequests :
            InOrder(r1, r2)

---------------------------------------------------------------------------
(* A TTL that is not positive *)

\* the numbers n <= 0 as tokens: the integers 0 and -1, and the bulk strings
\* "0", "-1" and "-10"
NonPositiveTokens ==
    {RespInteger(0), RespInteger(-1), RespBinaryString(<<48>>),
     RespBinaryString(<<45, 49>>), RespBinaryString(<<45, 49, 48>>)}

\* C22: SET k v EX n and SET k v PX n with n <= 0 reply -invalid command and
\* store nothing, whether n is an integer token or a bulk string of digits
\* with a leading minus sign.
C22_NonPositiveTtl ==
    \A k \in LiveKeys, opt \in {EX, PX}, n \in NonPositiveTokens, t2 \in now..MaxTime :
        LET o == run_set_command(shards, cleanup_using_lru, k, RespBinaryString(<<120>>),
                                 <<opt, n>>, now, t2)
        IN /\ o.reply = <<45, 105, 110, 118, 97, 108, 105, 100, 32, 99, 111, 109, 109, 97,
                          110, 100, 13, 10>>
           /\ o.shards = shards

---------------------------------------------------------------------------
(* The hash selector *)

\* the selector main would get for name and a positive max_value
Built(name, max_value) == create_hash_builder(name, max_value)

\* C23: for every selector create_hash_builder(name, N) builds and every key,
\* build_hash(key) is an index in [0, N), the same on every call for the key;
\* create_hash_builder gives the constant-0 selector for N = 1, and fails
\* with InvalidInput for the name xor with N > 256 and for a name it does not
\* know.
C23_HashInRange ==
    /\ [](/\ hash_builder.ok =>
               \A key \in HashKeys :
                   LET h == HashBuilder_build_hash(hash_builder, key, overflow_checks)
                   IN /\ ~h.panic
                      /\ 0 <= h.idx
                      /\ h.idx < hash_builder.max_value
                      /\ hash_builder.max_value = 1 => h.idx = 0
          /\ \A key \in DOMAIN routes :
                 routes[key] = HashBuilder_build_hash(hash_builder, key, overflow_checks)
          /\ \A name \in HashNames, N \in VectorSizes \ {0} :
                 /\ N = 1 => Built(name, N).ok /\ Built(name, N).kind = "zero"
                 /\ (N > 256 /\ name = "xor") => Built(name, N) = InvalidInput
                 /\ (N > 1 /\ name \notin {"xor", "sum", "djb2", "sdbm"})
                        => Built(name, N) = InvalidInput)
    /\ [][\A key \in DOMAIN routes : key \in DOMAIN routes' /\ routes'[key] = routes[key]]_vars

---------------------------------------------------------------------------
(* DEL of several keys *)

\* the keys the shards ss hold
Present(ss) == UNION {DOMAIN ss[i].map : i \in DOMAIN ss}

\* the keys that leave the keyspace in a step
Gone == Present(stripes) \ Present(stripes')

\* C24: DEL k1 .. kn replies the number of distinct listed keys that were
\* present, a key listed twice counted once, and afterwards none of the
\* listed keys is present.  The keys are grouped by shard and each shard is
\* locked on its own: in every step in which a DEL holds the lock of a shard
\* it counts exactly the keys that leave the keyspace in that step, so of two
\* connections that DEL the same key at the same time exactly one counts it.
C24_DelCounts ==
    /\ [](\A v \in DelArrays :
              LET keys == {v[j].s : j \in 2..Len(v)}
                  r == WorkerData_removekeys(stripes, keys, cleanup_using_lru)
              IN (Len(v) >= 2 /\ \A j \in 2..Len(v) : v[j].t = "RespBinaryString")
                     => /\ r.count = Cardinality(keys \cap Present(stripes))
                        /\ Present(r.shards) = Present(stripes) \ keys)
    /\ [][\A c \in Connections :
             (deleting[c].busy /\ deleting'[c] # deleting[c]) =>
                 LET idx == CHOOSE i \in DOMAIN deleting[c].key_map :
                                ~deleting'[c].busy \/ i \notin DOMAIN deleting'[c].key_map
                 IN /\ Gone = deleting[c].key_map[idx] \cap Present(stripes)
                    /\ deleting[c].key_map[idx] \cap Present(stripes') = {}
                    /\ Present(stripes') = Present(stripes) \ Gone
                    /\ IF deleting'[c].busy
                       THEN deleting'[c].removed = deleting[c].removed + Cardinality(Gone)
                       ELSE deleting'[c].reply
                               = <<58>> \o to_string(deleting[c].removed + Cardinality(Gone))
                                     \o <<13, 10>>]_vars

\* two connections are in a DEL that lists key a, which the keyspace holds;
\* one of them has removed bb from shard 0 and counted it, and both have
\* shard 1, the shard of a, still to lock
C24_Witness ==
    \E c1, c2 \in Connections :
        /\ c1 # c2
        /\ deleting[c1].busy /\ deleting[c2].busy
        /\ DOMAIN deleting[c1].key_map = {1}
        /\ <<97>> \in deleting[c1].key_map[1]
        /\ deleting[c1].removed = 1
        /\ 1 \in DOMAIN deleting[c2].key_map
        /\ <<97>> \in deleting[c2].key_map[1]
        /\ <<97>> \in DOMAIN stripes[1].map
        /\ <<98, 98>> \notin Present(stripes)

---------------------------------------------------------------------------
(* FLUSHALL and FLUSHDB *)

\* a shard with no entry, no index entry and no memory in use
Flushed(sh) ==
    /\ sh.map = <<>> /\ sh.map_by_time = <<>> /\ sh.map_by_expiration = <<>>
    /\ sh.current_memory = 0

\* the keyspaces the directory d holds under a name
Resident(d) == {d.maps_map[n] : n \in DOMAIN d.maps_map}

\* the session and the directory after connection c sent the command named s
AfterFlush(c, s) ==
    AfterKeyCommand(c, run_command(CurrentDb(c), cleanup_using_lru,
                                   RespArray(<<RespBinaryString(s)>>), now))

\* FLUSHDB replies +OK, empties the keyspace of the session and leaves every
\* other keyspace as it is
FlushDbOnlyCurrent(c) ==
    LET r == AfterFlush(c, FLUSHDB)
    IN /\ \A i \in ShardIds : Flushed(r.dir.keyspaces[sessions[c].current_db][i])
       /\ \A arc \in Resident(Dir) \ {sessions[c].current_db} :
              r.dir.keyspaces[arc] = keyspaces[arc]
       /\ r.dir.maps_map = maps_map

\* FLUSHALL empties every shard of every resident keyspace
FlushAllEvery(c) ==
    LET r == AfterFlush(c, FLUSHALL)
    IN \A arc \in Resident(Dir) : \A i \in ShardIds : Flushed(r.dir.keyspaces[arc][i])

\* C25: FLUSHALL empties every shard of every resident keyspace (no entry,
\* empty indexes, current_memory 0), FLUSHDB empties the keyspace of the
\* session and leaves every other resident keyspace unchanged.
C25_FlushScope ==
    \A c \in Connections :
        sessions[c].open => FlushAllEvery(c) /\ FlushDbOnlyCurrent(c)

\* the half of C25 that is about FLUSHDB
C25_FlushDbHalf ==
    \A c \in Connections : sessions[c].open => FlushDbOnlyCurrent(c)

\* what CommonData::flush_all does, were it called
C25_FlushAllCalled ==
    \A arc \in Resident(Dir) : \A i \in ShardIds : Flushed(flush_all(Dir).keyspaces[arc][i])

\* a connection is bound to one keyspace while another resident one holds a key
C25_TwoKeyspaces ==
    \E c \in Connections :
        /\ sessions[c].open
        /\ \E arc \in Resident(Dir) \ {sessions[c].current_db} :
               \E i \in ShardIds : keyspaces[arc][i].map # <<>>
        /\ \E i \in ShardIds : CurrentDb(c)[i].map # <<>>

---------------------------------------------------------------------------
(* Sets, overwrites and removals below the budget *)

\* shard sh is below its budget (and no panic has poisoned its lock)
BelowBudget(sh) == ~sh.poisoned /\ sh.current_memory < max_memory

\* C26: LRU on and the budget not reached: after sets of new keys, sets that
\* overwrite and removekey calls that end with every key removed, the
\* primary map and both indexes are empty and current_memory is 0.  Stated
\* for every reachable shard: a shard that holds no key is empty in every
\* part, and removing the keys a shard holds leaves it so.
C26_SetDelete ==
    cleanup_using_lru =>
        \A i \in ShardIds :
            BelowBudget(shards[i]) =>
                /\ shards[i].map = <<>> => Flushed(shards[i])
                /\ Flushed(RemoveAll(shards[i], DOMAIN shards[i].map, TRUE))
                /\ \A k \in DOMAIN shards[i].map, vh \in TestValues, e \in TestExpiries :
                       LET o == set(shards[i], k, vh, e, now, now, TRUE)
                       IN BelowBudget(o.shard) =>
                              Flushed(RemoveAll(o.shard, DOMAIN o.shard.map, TRUE))

\* LRU on: the shard holds both keys, key a with a deadline and stamped
\* later than key bb (it was set again), and the budget was not reached
C26_Witness ==
    /\ cleanup_using_lru
    /\ \E i \in ShardIds :
           /\ BelowBudget(shards[i])
           /\ DOMAIN shards[i].map = Keys
           /\ shards[i].map[<<97>>].expires_at # None
           /\ shards[i].map[<<97>>].last_access_time > shards[i].map[<<98, 98>>].last_access_time

---------------------------------------------------------------------------
(* The sweep of a set that reaches the budget *)

\* the keys of shard sh whose deadline is strictly earlier than t
PastDeadline(sh, t) ==
    {k \in DOMAIN sh.map : sh.map[k].expires_at # None /\ sh.map[k].expires_at < t}

\* shard sh with the size of the record of set(key, vh, expiry) added, as
\* set hands it to cleanup
Charged(sh, key, vh, expiry, created_at) ==
    [sh EXCEPT !.current_memory =
        @ + calculate_record_size(Len(key), Value_size(Value_new(vh, created_at, expiry)))]

\* C27: when a set brings current_memory to the budget or above, every
\* entry whose deadline is strictly earlier than the time the sweep reads is
\* removed before the new record is inserted: cleanup returns a shard with
\* no such entry, and after the set the shard holds only the new key and
\* entries whose deadline is not earlier than that time.
C27_SweepBeforeInsert ==
    \A k \in Keys, vh \in TestValues, e \in TestExpiries, t \in now..MaxTime :
        LET sh == shards[build_hash(k)]
            s0 == Charged(sh, k, vh, e, now)
        IN (~sh.poisoned /\ s0.current_memory >= max_memory) =>
               /\ PastDeadline(cleanup(s0, t, cleanup_using_lru), t) = {}
               /\ PastDeadline(remove_expired(s0, t, cleanup_using_lru), t) = {}
               /\ PastDeadline(set(sh, k, vh, e, now, t, cleanup_using_lru).shard, t) \subseteq {k}
               /\ DOMAIN set(sh, k, vh, e, now, t, cleanup_using_lru).shard.map
                      \subseteq (DOMAIN sh.map \ PastDeadline(sh, t)) \cup {k}

\* key bb is held past its deadline, and a set of key a reaches the budget,
\* sweeps bb and stores a
C27_Witness ==
    \E vh \in TestValues :
        LET sh == shards[build_hash(<<97>>)]
            o == set(sh, <<97>>, vh, None, now, now, cleanup_using_lru)
        IN /\ ~sh.poisoned
           /\ <<98, 98>> \in PastDeadline(sh, now)
           /\ Charged(sh, <<97>>, vh, None, now).current_memory >= max_memory
           /\ o.res = "Ok"
           /\ DOMAIN o.shard.map = {<<97>>}

---------------------------------------------------------------------------
(* The sweep comes before the eviction *)

\* the hashes of HSET: one or two fields with the values "x" and "yy"
TestHashes == UNION {[S -> HashValues] : S \in (SUBSET Fields) \ {{}}}

\* the keys set or hset took from shard sh as victims of the eviction: those
\* that left, other than the key written and the keys past their deadline
Victims(sh, after, k, t) == (DOMAIN sh.map \ DOMAIN after.map) \ (PastDeadline(sh, t) \cup {k})

\* shard sh after the sweep of a set or hset that charged size bytes
Swept(sh, size, t) ==
    remove_expired([sh EXCEPT !.current_memory = @ + size], t, cleanup_using_lru)

\* with victims, the swept shard was still at or above the budget and held
\* no entry past its deadline
SweptFirst(sh, after, k, size, t) ==
    Victims(sh, after, k, t) # {} =>
        /\ Swept(sh, size, t).current_memory >= max_memory
        /\ PastDeadline(Swept(sh, size, t), t) = {}
        /\ PastDeadline(after, t) \subseteq {k}

\* C28: the sweep of the entries past their deadline runs before the LRU
\* eviction: whenever a set or hset evicts an entry that is not past its
\* deadline, the shard held no entry past its deadline at that moment, and
\* the sweep alone had not brought it below the budget.
C28_SweepBeforeEviction ==
    \A k \in Keys, t \in now..MaxTime :
        LET sh == shards[build_hash(k)]
        IN ~sh.poisoned =>
               /\ \A vh \in TestValues, e \in TestExpiries :
                      SweptFirst(sh, set(sh, k, vh, e, now, t, cleanup_using_lru).shard, k,
                                 calculate_record_size(Len(k), Value_size(Value_new(vh, now, e))), t)
               /\ \A h \in TestHashes :
                      SweptFirst(sh, hset(sh, k, h, now, t, cleanup_using_lru).shard, k,
                                 calculate_record_size(Len(k), Value_size(Value_new_hash(h, now))), t)

\* a set of key bb succeeds after the eviction of key a, which has no
\* deadline or one that the clock has not reached
C28_Witness ==
    \E vh \in TestValues :
        LET sh == shards[build_hash(<<98, 98>>)]
            o == set(sh, <<98, 98>>, vh, None, now, now, cleanup_using_lru)
        IN /\ ~sh.poisoned
           /\ o.res = "Ok"
           /\ <<97>> \in Victims(sh, o.shard, <<98, 98>>, now)

---------------------------------------------------------------------------
(* LRU off: nothing is evicted *)

\* the record shards ss hold under key k
EntryOf(ss, k) == ss[build_hash(k)].map[k]

\* the keys other than k that shards ss hold with no deadline or one that
\* the clock t has not reached
UnexpiredOthers(ss, k, t) ==
    {j \in Present(ss) \ {k} : ~is_expired(EntryOf(ss, j), t)}

\* outcome o of a command on key k left every such key with its record
KeepsOthers(o, k, t) ==
    \A j \in UnexpiredOthers(shards, k, t) :
        j \in Present(o.shards) /\ EntryOf(o.shards, j) = EntryOf(shards, j)

\* the shards after the commands that remove key k: a DEL that lists it, an
\* HDEL on it, a flush
AfterRemovalOf(k) ==
    {run_del_command(shards, cleanup_using_lru, ks).shards : ks \in {x \in SUBSET Keys : k \in x}}
        \cup {run_hdel_command(shards, cleanup_using_lru, k, fs).shards : fs \in SUBSET Fields}
        \cup {run_flush_command(shards).shards}

\* with LRU off no set or hset, successful or failed, removes or changes an
\* entry of another key that has not expired
C29_SetsKeepOthers ==
    ~cleanup_using_lru =>
        /\ \A k \in LiveKeys, in \in SetInputs, t2 \in now..MaxTime :
               KeepsOthers(run_set_command(shards, FALSE, k, in[1], in[2], now, t2), k, t2)
        /\ \A k \in LiveKeys, toks \in HSetTokens, t2 \in now..MaxTime :
               KeepsOthers(run_hset_command(shards, FALSE, k, toks, now, t2), k, t2)

\* C29: with LRU off no set or hset, successful or failed, removes or
\* changes an entry of another key that has not expired; and an entry that
\* has not expired leaves its shard only in a step of DEL, of HDEL on its
\* key or of a flush (a set on its key replaces it), never in the step in
\* which a reader completes its read.
C29_NoSilentEviction ==
    /\ []C29_SetsKeepOthers
    /\ [][~cleanup_using_lru =>
             \A k \in Present(shards) :
                 (~is_expired(EntryOf(shards, k), now') /\ k \notin Present(shards'))
                     => shards' \in AfterRemovalOf(k) /\ pending' = pending]_vars

---------------------------------------------------------------------------
(* The order of the eviction *)

\* the keys the loop of cleanup evicts from shard sh once charged is at or
\* above the budget and swept
Evicted(charged, t) ==
    DOMAIN remove_expired(charged, t, TRUE).map \ DOMAIN cleanup(charged, t, TRUE).map

\* the eviction of cleanup on the charged shard takes whole buckets from the
\* lowest up: with key k every key stamped as k or earlier
LowestFirst(charged, t) ==
    LET swept == remove_expired(charged, t, TRUE)
    IN \A k \in Evicted(charged, t), j \in DOMAIN swept.map :
           swept.map[j].last_access_time <= swept.map[k].last_access_time
               => j \in Evicted(charged, t)

\* and stops as soon as current_memory is below the budget: without the
\* keys of the highest bucket it took the shard was at or above the budget
StopsBelowBudget(charged, t) ==
    LET swept == remove_expired(charged, t, TRUE)
        ev == Evicted(charged, t)
        last == CHOOSE k \in ev : \A j \in ev :
                    swept.map[j].last_access_time <= swept.map[k].last_access_time
        lower == {j \in ev : swept.map[j].last_access_time < swept.map[last].last_access_time}
    IN /\ ev # {} => RemoveAll(swept, lower, TRUE).current_memory >= max_memory
       /\ ~cleanup(charged, t, TRUE).poisoned => cleanup(charged, t, TRUE).current_memory < max_memory

\* the charged shards of every set and hset on shard sh
ChargedBy(sh) ==
    {Charged(sh, k, vh, e, now) : k \in Keys, vh \in TestValues, e \in TestExpiries}
        \cup {[sh EXCEPT !.current_memory =
                   @ + calculate_record_size(Len(k), Value_size(Value_new_hash(h, now)))] :
                 k \in Keys, h \in TestHashes}

\* after a GET that finds key g, no set or hset evicts g while a key stamped
\* in an earlier millisecond survives
ReadKeyOutlives(g, t2) ==
    LET og == run_get_command(shards, TRUE, g, now, t2)
        sh == og.shards[build_hash(g)]
    IN (og.res = "Found" /\ (2 \in og.reads \/ t2 = now)) =>
           \A charged \in ChargedBy(sh), t \in t2..MaxTime :
               (charged.current_memory >= max_memory /\ g \in Evicted(charged, t)) =>
                   \A j \in DOMAIN sh.map :
                       sh.map[j].last_access_time < sh.map[g].last_access_time
                           => j \notin DOMAIN cleanup(charged, t, TRUE).map

\* C30: the LRU eviction removes whole buckets of map_by_time from the
\* lowest time up and stops as soon as current_memory is below the budget:
\* with key k a set or hset evicts every key last accessed at k's time or
\* earlier, and a key a GET has found in a later millisecond than another
\* key's last access is never evicted while that key survives.
C30_LowestBucketsFirst ==
    cleanup_using_lru =>
        /\ \A i \in ShardIds : ~shards[i].poisoned =>
               \A charged \in ChargedBy(shards[i]), t \in now..MaxTime :
                   charged.current_memory >= max_memory =>
                       LowestFirst(charged, t) /\ StopsBelowBudget(charged, t)
        /\ \A g \in LiveKeys, t2 \in now..MaxTime : ReadKeyOutlives(g, t2)

\* LRU on: key a was accessed later than key bb and a GET finds it, and a
\* SET of key bb evicts bb alone and succeeds: key a survives
C30_Witness ==
    /\ cleanup_using_lru
    /\ Unlocked(<<97>>)
    /\ run_get_command(shards, TRUE, <<97>>, now, now).res = "Found"
    /\ \E vh \in TestValues :
           LET sh == shards[build_hash(<<98, 98>>)]
               charged == Charged(sh, <<98, 98>>, vh, None, now)
           IN /\ ~sh.poisoned
              /\ DOMAIN sh.map = Keys
              /\ sh.map[<<97>>].last_access_time > sh.map[<<98, 98>>].last_access_time
              /\ charged.current_memory >= max_memory
              /\ Evicted(charged, now) = {<<98, 98>>}
              /\ set(sh, <<98, 98>>, vh, None, now, now, TRUE).res = "Ok"
              /\ <<97>> \in DOMAIN set(sh, <<98, 98>>, vh, None, now, now, TRUE).shard.map

---------------------------------------------------------------------------
(* What HSET replies and stores *)

\* the token lists of HSET whose fields and values are all bulk strings
StringPairs(toks) ==
    Len(toks) >= 2 /\ Len(toks) % 2 = 0 /\ \A i \in 1..Len(toks) : toks[i].t = "RespBinaryString"

\* the fields the tokens name
GivenFields(toks) == {toks[2 * i - 1].s : i \in 1..(Len(toks) \div 2)}

\* the hash under key k after outcome o holds every given field with its
\* given value
StoresGiven(o, k, toks) ==
    /\ k \in Present(o.shards)
    /\ EntryOf(o.shards, k).value.tag = "HashMapValue"
    /\ \A f \in GivenFields(toks) :
           /\ f \in DOMAIN EntryOf(o.shards, k).value.h
           /\ EntryOf(o.shards, k).value.h[f] = hset_values(toks)[f]

\* C31: an HSET that succeeds on an absent key replies the number of
\* distinct fields given; on a key that holds a hash it replies the number
\* of given fields the hash did not have, and afterwards every given field
\* has its given value and every other field of the hash its old one.
C31_HSetCounts ==
    \A k \in LiveKeys, toks \in HSetTokens, t2 \in now..MaxTime :
        LET o == run_hset_command(shards, cleanup_using_lru, k, toks, now, t2)
        IN (StringPairs(toks) /\ o.res = "Ok") =>
               IF k \notin Present(shards)
               THEN /\ o.reply = resp_encode_int(Cardinality(GivenFields(toks)))
                    /\ StoresGiven(o, k, toks)
                    /\ DOMAIN EntryOf(o.shards, k).value.h = GivenFields(toks)
               ELSE EntryOf(shards, k).value.tag = "HashMapValue" =>
                        /\ o.reply = resp_encode_int(Cardinality(
                               GivenFields(toks) \ DOMAIN EntryOf(shards, k).value.h))
                        /\ StoresGiven(o, k, toks)
                        /\ \A f \in DOMAIN EntryOf(shards, k).value.h \ GivenFields(toks) :
                               /\ f \in DOMAIN EntryOf(o.shards, k).value.h
                               /\ EntryOf(o.shards, k).value.h[f] = EntryOf(shards, k).value.h[f]

---------------------------------------------------------------------------
(* Encoding and parsing *)

\* C32: a byte string b encoded with resp_encode_binary_string parses to
\* the one token RespBinaryString(b), which takes the whole encoding, also
\* for the empty string and for strings with \r or \n in them; an integer
\* encoded with resp_encode_int parses to RespInteger of the same integer.
C32_RoundTrip ==
    /\ parsed.done =>
           /\ sent.kind = "string" =>
                  /\ parsed.r = [ok |-> TRUE, tokens |-> <<RespBinaryString(sent.s)>>]
                  /\ parse_token(wire, 0, Len(wire)).idx = Len(wire)
           /\ sent.kind = "int" =>
                  parsed.r = [ok |-> TRUE, panic |-> FALSE, tokens |-> <<RespIsize(sent.n)>>]
    /\ \A n \in SmallInts :
           /\ resp_encode_int(n) = resp_encode_isize(isize(n))
           /\ parse_tokens(resp_encode_int(n), Len(resp_encode_int(n)))
                  = [ok |-> TRUE, tokens |-> <<RespInteger(n)>>]

\* the same for every byte string and every integer but the lowest, which
\* is left to builds without overflow checks
C32_RoundTripButLowest ==
    (parsed.done /\ sent.kind = "int" /\ sent.n = isize_MIN /\ parsed.checks) \/ C32_RoundTrip

---------------------------------------------------------------------------
(* Lengths the parser must refuse *)

\* the parser refused the received bytes and the reply is -invalid command
Refused ==
    /\ ~parsed.r.ok
    /\ resp_parse(build_maps, cleanup_using_lru, wire, Len(wire), now).reply
           = INVALID_COMMAND_ERROR

\* the parser refuses the buffers with a negative length other than -1 and
\* those with a length that reaches past the received bytes
C33_RefusesBadLengths ==
    (parsed.done /\ sent.kind = "bytes" /\ wire \in NegativeLengths \cup PastTheEnd) => Refused

\* C33: the parser replies -invalid command to every buffer with an array
\* or bulk-string length that is negative and not -1, to every buffer with
\* a length or element count that reaches past the received bytes, and to
\* every buffer in which other bytes than \r\n follow the payload of a bulk
\* string.
C33_RefusesMalformed ==
    (parsed.done /\ sent.kind = "bytes"
        /\ wire \in NegativeLengths \cup PastTheEnd \cup NoCrLfAfterPayload) => Refused

---------------------------------------------------------------------------
(* What a failed HSET leaves charged *)

\* every shard that was charged the sum of its record sizes before the
\* command is charged the sum of its record sizes after it
StaysAccounted(o) ==
    \A i \in ShardIds :
        shards[i].current_memory = RecordSizes(shards[i]) =>
            o.shards[i].current_memory = RecordSizes(o.shards[i])

\* an HSET that fails with OutOfMemory leaves every shard charged the sum of
\* the record sizes of the entries it still holds
C34_OutOfMemoryTakenBack ==
    \A o \in HSetOutcomes : o.res = "OutOfMemory" => StaysAccounted(o)

\* C34: an HSET that fails, with WrongType because the key holds a value that
\* is no hash or with OutOfMemory, leaves current_memory of the shard equal
\* to the sum of the record sizes of the entries it still holds.
C34_FailedHSetAccounted ==
    \A o \in HSetOutcomes : o.res \in {"WrongType", "OutOfMemory"} => StaysAccounted(o)

---------------------------------------------------------------------------
(* The eviction loop on an empty index *)

\* every SET and HSET that can run now returns a result
AllReturn == \A o \in SetOutcomes \cup HSetOutcomes : o.res # "panic"

\* without LRU every set and hset returns a result and no shard lock is
\* poisoned
C35_ReturnsWithoutLru ==
    ~cleanup_using_lru => AllReturn /\ \A i \in ShardIds : ~shards[i].poisoned

\* C35: with LRU enabled every set and hset returns a result, success or an
\* error, whatever the record size and also when by_access_time is empty,
\* and no shard lock is left poisoned.
C35_ReturnsWithLru ==
    cleanup_using_lru => AllReturn /\ \A i \in ShardIds : ~shards[i].poisoned

---------------------------------------------------------------------------
(* A SET that replaces a value *)

\* current_memory of sh once the value of key is replaced by v
AfterReplacement(sh, key, v) ==
    sh.current_memory - Value_size(sh.map[key]) + Value_size(v)

\* outcome o of a set on key is Ok and every other key of sh whose deadline
\* is not earlier than t is still held
Admitted(o, sh, key, t) ==
    /\ o.res = "Ok"
    /\ (DOMAIN sh.map \ PastDeadline(sh, t)) \ {key} \subseteq DOMAIN o.shard.map

\* a set that replaces the value of a key is admitted and evicts no other
\* key whenever current_memory with the record size of the new value added
\* is below the budget
C36_AdmittedBelowCharge ==
    \A k \in HeldKeys, vh \in TestValues, e \in TestExpiries, t \in now..MaxTime :
        LET sh == shards[build_hash(k)]
        IN (~sh.poisoned /\ Charged(sh, k, vh, e, now).current_memory < max_memory) =>
               Admitted(set(sh, k, vh, e, now, t, cleanup_using_lru), sh, k, t)

\* C36: a SET that replaces the value of an existing key is admitted, without
\* OutOfMemory and without evicting another key, whenever current_memory
\* minus the size of the old value plus the size of the new value is below
\* the budget.
C36_ReplacementAdmitted ==
    \A k \in HeldKeys, vh \in TestValues, e \in TestExpiries, t \in now..MaxTime :
        LET sh == shards[build_hash(k)]
        IN (~sh.poisoned /\ AfterReplacement(sh, k, Value_new(vh, now, e)) < max_memory) =>
               Admitted(set(sh, k, vh, e, now, t, cleanup_using_lru), sh, k, t)

---------------------------------------------------------------------------
(* Hashes with no field *)

\* the keys of shards ss that hold a hash with no field
EmptyHashes(ss) ==
    {k \in Present(ss) : EntryOf(ss, k).value.tag = "HashMapValue"
                            /\ DOMAIN EntryOf(ss, k).value.h = {}}

\* an HSET whose tokens after the key are pairs of bulk strings and an HDEL
\* leave no hash without fields that was not there before
C39_StringPairsAndHDel ==
    /\ \A k \in LiveKeys, toks \in HSetTokens, t2 \in now..MaxTime :
           (Len(toks) % 2 = 0 /\ \A j \in 1..Len(toks) : toks[j].t = "RespBinaryString") =>
               EmptyHashes(run_hset_command(shards, cleanup_using_lru, k, toks, now, t2).shards)
                   \subseteq EmptyHashes(shards)
    /\ \A o \in HDelOutcomes : EmptyHashes(o.shards) \subseteq EmptyHashes(shards)

\* C39: no key of a shard holds a hash with zero fields, whatever tokens the
\* HSETs that ran had after the key, integers included.
C39_NoEmptyHash == EmptyHashes(shards) = {}

---------------------------------------------------------------------------
(* HSET on a key past its deadline *)

\* what the shards hold under key k: one entry or none
Stored(ss, k) == IF k \in Present(ss) THEN {EntryOf(ss, k)} ELSE {}

\* the token sequences the dispatcher accepts after the key of HSET
PairTokens == {toks \in HSetTokens : Len(toks) % 2 = 0}

\* HSET k toks replies and stores under k what it does when the shards do
\* not hold k
AsNeverSet(k, toks, t2) ==
    LET idx == build_hash(k)
        never == [shards EXCEPT ![idx] = removekey(shards[idx], k, cleanup_using_lru)]
        o == run_hset_command(shards, cleanup_using_lru, k, toks, now, t2)
        fresh == run_hset_command(never, cleanup_using_lru, k, toks, now, t2)
    IN o.reply = fresh.reply /\ Stored(o.shards, k) = Stored(fresh.shards, k)

\* an HSET whose charge brings current_memory to the budget has the key
\* past its deadline swept first and then does as for a key never set
C40_SweptThenFresh ==
    \A k \in HeldKeys, toks \in PairTokens, t2 \in now..MaxTime :
        LET sh == shards[build_hash(k)]
            size == calculate_record_size(Len(k), calculate_map_size(hset_values(toks)))
        IN (~sh.poisoned /\ k \in PastDeadline(sh, now) /\ sh.current_memory + size >= max_memory) =>
               AsNeverSet(k, toks, t2)

\* C40: HSET on a key whose value has passed its deadline and has not been
\* swept creates a fresh hash and replies the number of fields inserted, as
\* it does for a key that was never set.
C40_ExpiredAsAbsent ==
    \A k \in HeldKeys, toks \in PairTokens, t2 \in now..MaxTime :
        LET sh == shards[build_hash(k)]
        IN (~sh.poisoned /\ k \in PastDeadline(sh, now)) => AsNeverSet(k, toks, t2)

---------------------------------------------------------------------------
(* generic_maps.rs: one GenericMaps with use_map_by_time, get called by     *)
(* several threads through a shared reference                              *)

\* GenericMaps::set for the keys, values and record size of the server's
\* shards: the steps of CommonMaps::set, with use_map_by_time for the flag
GenericMaps_set(gm, key, value, expiry, created_at, t) ==
    set(gm, key, value, expiry, created_at, t, TRUE)

\* a thread is inside get
InGet(th) == getters[th].pc \in {"swap", "remove", "insert"}

\* maps.set(&key, value, None, start_time): set takes the map by exclusive
\* reference, so no get is running
GenericSet(k, vh) ==
    /\ \A th \in Getters : ~InGet(th)
    /\ ~gmaps.poisoned
    /\ gmaps' = GenericMaps_set(gmaps, k, vh, None, now, now).shard
    /\ UNCHANGED <<now, cleanup_using_lru, shards, race_vars, db_vars, hash_vars, del_vars,
                   parse_vars, getters, lock_vars>>

\* get, up to the clock read of update_map_by_time: the key is looked up;
\* None is returned at once
GetLookup(th, k) ==
    /\ getters[th].pc = "idle"
    /\ getters' = [getters EXCEPT ![th] =
           IF k \in DOMAIN gmaps.map
           THEN [IdleGetter EXCEPT !.pc = "swap", !.key = k, !.now = now]
           ELSE [IdleGetter EXCEPT !.got = "None"]]
    /\ UNCHANGED <<now, cleanup_using_lru, shards, race_vars, db_vars, hash_vars, del_vars,
                   parse_vars, gmaps, lock_vars>>

\* update_map_by_time: last_access_time.swap(now); get returns when the
\* stamp was now already
GetSwap(th) ==
    LET g == getters[th]
        old == gmaps.map[g.key].last_access_time
    IN /\ g.pc = "swap"
       /\ gmaps' = [gmaps EXCEPT !.map[g.key].last_access_time = g.now]
       /\ getters' = [getters EXCEPT ![th] =
              IF g.now # old THEN [g EXCEPT !.pc = "remove", !.old = old]
              ELSE [IdleGetter EXCEPT !.got = "Some"]]
       /\ UNCHANGED <<now, cleanup_using_lru, shards, race_vars, db_vars, hash_vars, del_vars,
                      parse_vars, lock_vars>>

\* remove_from_map_by_time(key, old) under the write lock of map_by_time:
\* write().unwrap() panics on a poisoned lock, get_mut(&old).unwrap() on a
\* bucket that is not there
GetRemove(th) ==
    LET g == getters[th]
        after == remove_from_map_by_time(gmaps, g.key, g.old)
    IN /\ g.pc = "remove"
       /\ gmaps' = after
       /\ getters' = [getters EXCEPT ![th].pc = IF after.poisoned THEN "panicked" ELSE "insert"]
       /\ UNCHANGED <<now, cleanup_using_lru, shards, race_vars, db_vars, hash_vars, del_vars,
                      parse_vars, lock_vars>>

\* insert_into_map_by_time(key, now) under the write lock; get returns
GetInsert(th) ==
    LET g == getters[th]
    IN /\ g.pc = "insert"
       /\ gmaps' = insert_into_map_by_time(gmaps, g.key, g.now)
       /\ getters' = [getters EXCEPT ![th] =
              IF gmaps.poisoned THEN [g EXCEPT !.pc = "panicked"]
              ELSE [IdleGetter EXCEPT !.got = "Some"]]
       /\ UNCHANGED <<now, cleanup_using_lru, shards, race_vars, db_vars, hash_vars, del_vars,
                      parse_vars, lock_vars>>

NextGeneric ==
    \/ Tick
    \/ \E k \in Keys, v \in HashValues : GenericSet(k, StringValue(v))
    \/ \E th \in Getters, k \in Keys : GetLookup(th, k)
    \/ \E th \in Getters : GetSwap(th)
    \/ \E th \in Getters : GetRemove(th)
    \/ \E th \in Getters : GetInsert(th)

SpecGeneric == Init /\ [][NextGeneric]_vars

---------------------------------------------------------------------------
(* Several threads in get on one key *)

\* the buckets of map_by_time that hold key k
BucketsOf(gm, k) == {t \in DOMAIN gm.map_by_time : k \in gm.map_by_time[t]}

\* the calls have returned and every key is in exactly one bucket of
\* map_by_time, that of its last_access_time
StampIndexed ==
    (\A th \in Getters : ~InGet(th)) =>
        \A k \in DOMAIN gmaps.map : BucketsOf(gmaps, k) = {gmaps.map[k].last_access_time}

\* while only one thread has called get, no call panics and the key is in
\* the bucket of its stamp whenever the thread is outside get
C38_OneThread ==
    (\A th \in Getters \ {1} : getters[th] = IdleGetter) =>
        getters[1].pc # "panicked" /\ StampIndexed

\* C38: when several threads call get of GenericMaps on one live key with
\* use_map_by_time, no call fails to find the bucket it removes the key
\* from, and once the calls have returned the key is in exactly one bucket
\* of map_by_time, that of its last_access_time.
C38_ConcurrentGets ==
    /\ \A th \in Getters : getters[th].pc # "panicked"
    /\ StampIndexed

---------------------------------------------------------------------------
(* worker_data.rs, common_data.rs, common_data_map.rs: the commands of the  *)
(* connection threads, lock by lock, on the keyspace of DelVectorSize       *)
(* shards                                                                  *)

\* the locks: CommonData.maps_map and CommonData.map_by_time, the RwLock of
\* shard i in CommonDataMap.map, and CommonMaps.aux_maps of shard i
DirLock == <<"maps_map", 0>>
DirAuxLock == <<"map_by_time", 0>>
ShardLock(i) == <<"shard", i>>
AuxLock(i) == <<"aux_maps", i>>
Lock(l, m) == [l |-> l, m |-> m]

\* the threads that hold lock l, and those that hold it for writing
Holders(l) == {c \in Connections : \E h \in workers[c].held : h.l = l}
Writers(l) == {c \in Connections : Lock(l, "w") \in workers[c].held}
\* RwLock: write() returns when no thread holds the lock, read() when no
\* thread holds it for writing
CanLock(l, m) == IF m = "w" THEN Holders(l) = {} ELSE Writers(l) = {}

\* get_read_lock for the reads, get_write_lock for everything else
ShardMode(w) == IF w.op = "get" THEN "r" ELSE "w"
\* maps_map.write() in createdb, maps_map.read() in flush_all
DirMode(w) == IF w.op = "createdb" THEN "w" ELSE "r"

\* the commands as run_command hands them to WorkerData and CommonData
SetCommand(k, vh, e) ==
    [IdleWorker EXCEPT !.pc = "want_shard", !.op = "set", !.key = k, !.value = vh,
                       !.expiry = e, !.todo = {ShardOf(k)}]
GetCommand(k) ==
    [IdleWorker EXCEPT !.pc = "want_shard", !.op = "get", !.key = k, !.todo = {ShardOf(k)}]
DelCommand(keys) ==
    [IdleWorker EXCEPT !.pc = "want_shard", !.op = "removekeys", !.keys = keys,
                       !.todo = DOMAIN key_map_of(keys)]
FlushCommand ==
    [IdleWorker EXCEPT !.pc = "want_shard", !.op = "flush", !.todo = DOMAIN stripes]
FlushAllCommand ==
    [IdleWorker EXCEPT !.pc = "want_dir", !.op = "flush_all", !.todo = DOMAIN stripes]
CreateDbCommand(db_name) ==
    [IdleWorker EXCEPT !.pc = "want_dir", !.op = "createdb", !.key = db_name]

\* a thread that panicked: the unwinding dropped its guards
Panicked == [IdleWorker EXCEPT !.pc = "panicked"]

\* the thread of connection c is handed a command
Dispatch(c, w) ==
    /\ workers[c].pc = "idle"
    /\ workers' = [workers EXCEPT ![c] = w]
    /\ UNCHANGED <<now, cleanup_using_lru, shards, race_vars, db_vars, hash_vars, del_vars,
                   parse_vars, generic_vars>>

\* maps_map.write() of createdb, maps_map.read() of flush_all.  createdb
\* returns its error when the name is taken (Entry::Occupied)
LockDir(c) ==
    LET w == workers[c]
    IN /\ w.pc = "want_dir"
       /\ CanLock(DirLock, DirMode(w))
       /\ workers' = [workers EXCEPT ![c] =
              IF w.op = "createdb" /\ w.key \in DOMAIN maps_map THEN IdleWorker
              ELSE [w EXCEPT !.held = @ \cup {Lock(DirLock, DirMode(w))},
                             !.pc = IF w.op = "createdb" THEN "want_diraux"
                                    ELSE "want_shard"]]
       /\ UNCHANGED <<now, cleanup_using_lru, shards, race_vars, db_vars, hash_vars, del_vars,
                      parse_vars, generic_vars>>

\* map_by_time.write() in insert_to_map_by_time, called by createdb inside
\* the write lock of maps_map
LockDirAux(c) ==
    LET w == workers[c]
    IN /\ w.pc = "want_diraux"
       /\ CanLock(DirAuxLock, "w")
       /\ workers' = [workers EXCEPT ![c] =
              [w EXCEPT !.held = @ \cup {Lock(DirAuxLock, "w")}, !.pc = "in_diraux"]]
       /\ UNCHANGED <<now, cleanup_using_lru, shards, race_vars, db_vars, hash_vars, del_vars,
                      parse_vars, generic_vars>>

\* createdb inserts the keyspace and the stamp and returns: both guards are
\* dropped
InDirAux(c) ==
    LET w == workers[c]
        d == createdb(Dir, w.key, now).dir
    IN /\ w.pc = "in_diraux"
       /\ maps_map' = d.maps_map
       /\ keyspaces' = d.keyspaces
       /\ db_map_by_time' = d.map_by_time
       /\ workers' = [workers EXCEPT ![c] = IdleWorker]
       /\ UNCHANGED <<now, cleanup_using_lru, shards, race_vars, sessions, hash_vars, del_vars,
                      parse_vars, generic_vars>>

\* current_db.get_read_lock(idx) or get_write_lock(idx), for flush and
\* removekeys on one of the shards still to visit: read().unwrap() and
\* write().unwrap() panic on a poisoned lock
LockShard(c, i) ==
    LET w == workers[c]
    IN /\ w.pc = "want_shard"
       /\ i \in w.todo
       /\ CanLock(ShardLock(i), ShardMode(w))
       /\ workers' = [workers EXCEPT ![c] =
              IF stripes[i].poisoned THEN Panicked
              ELSE [w EXCEPT !.held = @ \cup {Lock(ShardLock(i), ShardMode(w))},
                             !.idx = i, !.pc = "in_shard"]]
       /\ UNCHANGED <<now, cleanup_using_lru, shards, race_vars, db_vars, hash_vars, del_vars,
                      parse_vars, generic_vars>>

\* what the command does to the shard it holds for writing
Body(w, sh) ==
    CASE w.op = "set" ->
             set(sh, w.key, w.value, w.expiry, now, now, cleanup_using_lru).shard
      [] w.op = "removekeys" -> RemoveAll(sh, key_map_of(w.keys)[w.idx], cleanup_using_lru)
      [] w.op = "removekey" -> removekey(sh, w.key, cleanup_using_lru)
      [] OTHER -> flush(sh)

\* the guard of the shard is dropped: the thread goes on to the next shard,
\* or the command returns and the guard of maps_map is dropped with it
Leave(w) ==
    IF w.todo \ {w.idx} = {} THEN IdleWorker
    ELSE [w EXCEPT !.held = @ \ {Lock(ShardLock(w.idx), ShardMode(w))},
                   !.todo = @ \ {w.idx}, !.pc = "want_shard"]

\* inside the lock of the shard.  A read looks the key up: Found goes on to
\* aux_maps.write() when LRU is on, Expired drops the read guard and asks for
\* the write lock to remove the key.  A write runs on the shard, taking
\* aux_maps inside, and drops the guard; a panic poisons the lock
InShard(c) ==
    LET w == workers[c]
        sh == stripes[w.idx]
        g == get_result(sh, w.key, now)
        after == Body(w, sh)
    IN /\ w.pc = "in_shard"
       /\ IF w.op = "get"
          THEN /\ workers' = [workers EXCEPT ![c] =
                      CASE g = "Found" /\ cleanup_using_lru -> [w EXCEPT !.pc = "want_aux"]
                        [] g = "Expired" ->
                               [w EXCEPT !.held = @ \ {Lock(ShardLock(w.idx), "r")},
                                         !.op = "removekey", !.pc = "want_shard"]
                        [] OTHER -> IdleWorker]
               /\ stripes' = stripes
          ELSE /\ stripes' = [stripes EXCEPT ![w.idx] = after]
               /\ workers' = [workers EXCEPT ![c] =
                      IF after.poisoned THEN Panicked ELSE Leave(w)]
       /\ UNCHANGED <<now, cleanup_using_lru, shards, race_vars, db_vars, hash_vars, deleting,
                      parse_vars, generic_vars>>

\* aux_maps.write().unwrap() of a read that found its key
LockAux(c) ==
    LET w == workers[c]
    IN /\ w.pc = "want_aux"
       /\ CanLock(AuxLock(w.idx), "w")
       /\ workers' = [workers EXCEPT ![c] =
              IF stripes[w.idx].poisoned THEN Panicked
              ELSE [w EXCEPT !.held = @ \cup {Lock(AuxLock(w.idx), "w")}, !.pc = "in_aux"]]
       /\ UNCHANGED <<now, cleanup_using_lru, shards, race_vars, db_vars, hash_vars, del_vars,
                      parse_vars, generic_vars>>

\* update_map_by_time inside aux_maps; the read returns and drops both guards
InAux(c) ==
    LET w == workers[c]
        after == update_map_by_time(stripes[w.idx], w.key, now, TRUE)
    IN /\ w.pc = "in_aux"
       /\ stripes' = [stripes EXCEPT ![w.idx] = after]
       /\ workers' = [workers EXCEPT ![c] = IF after.poisoned THEN Panicked ELSE IdleWorker]
       /\ UNCHANGED <<now, cleanup_using_lru, shards, race_vars, db_vars, hash_vars, deleting,
                      parse_vars, generic_vars>>

\* the name CREATEDB is called with
LockDbNames == {<<97>>}
\* the commands the threads are handed: SET a x PX 1, SET bb of BigLen
\* bytes, GET a, DEL a bb, FLUSHDB, flush_all, CREATEDB a
Commands ==
    {SetCommand(<<97>>, StringValue(<<120>>), e) : e \in Ttls}
        \cup {SetCommand(<<98, 98>>, StringValue(BigValue), None)}
        \cup {GetCommand(<<97>>), DelCommand(Keys), FlushCommand, FlushAllCommand}
        \cup {CreateDbCommand(n) : n \in LockDbNames}

\* the steps of the thread of connection c inside a command
WorkerStep(c) ==
    \/ LockDir(c)
    \/ LockDirAux(c)
    \/ InDirAux(c)
    \/ \E i \in DOMAIN stripes : LockShard(c, i)
    \/ InShard(c)
    \/ LockAux(c)
    \/ InAux(c)

NextLocks ==
    \/ Tick
    \/ \E c \in Connections, w \in Commands : Dispatch(c, w)
    \/ \E c \in Connections : LockDir(c)
    \/ \E c \in Connections : LockDirAux(c)
    \/ \E c \in Connections : InDirAux(c)
    \/ \E c \in Connections, i \in DOMAIN stripes : LockShard(c, i)
    \/ \E c \in Connections : InShard(c)
    \/ \E c \in Connections : LockAux(c)
    \/ \E c \in Connections : InAux(c)

SpecLocks == Init /\ [][NextLocks]_vars

\* every thread that can take a step takes one: the scheduler runs every
\* thread, and a lock that is released again and again is handed to a thread
\* that waits for it
SpecLocksLive == SpecLocks /\ \A c \in Connections : SF_vars(WorkerStep(c))

---------------------------------------------------------------------------
(* Commands and locks *)

\* the shard locks and the aux_maps locks thread w holds
ShardLocksOf(w) == {h \in w.held : h.l[1] = "shard"}
AuxLocksOf(w) == {h \in w.held : h.l[1] = "aux_maps"}

\* the order of the locks: maps_map is asked for with nothing held; a shard
\* lock is asked for with no shard lock and no aux_maps lock held; at most
\* one shard lock is held; aux_maps of a shard is asked for and held inside
\* the lock of that shard; map_by_time of the directory is held inside the
\* write lock of maps_map
C37_LockOrder ==
    \A c \in Connections :
        LET w == workers[c]
        IN /\ w.pc = "want_dir" => w.held = {}
           /\ w.pc = "want_shard" => ShardLocksOf(w) = {} /\ AuxLocksOf(w) = {}
           /\ Cardinality(ShardLocksOf(w)) <= 1
           /\ w.pc = "want_aux" => ShardLocksOf(w) = {Lock(ShardLock(w.idx), "r")}
           /\ \A h \in AuxLocksOf(w) : \E g \in ShardLocksOf(w) : g.l = ShardLock(h.l[2])
           /\ Lock(DirAuxLock, "w") \in w.held => Lock(DirLock, "w") \in w.held

\* every command that was dispatched returns
Completes ==
    \A c \in Connections : (workers[c].pc # "idle") ~> (workers[c].pc = "idle")

\* no thread waits for a lock for ever: every command that was dispatched
\* returns or ends in a panic of its thread
C37_ReturnsOrPanics ==
    \A c \in Connections :
        (workers[c].pc # "idle") ~> (workers[c].pc \in {"idle", "panicked"})

\* with LRU off every command that was dispatched returns
C37_CompletesWithoutLru == (~cleanup_using_lru) => Completes

\* C37: no command blocks for ever on locks: the locks are taken in the
\* order directory table, one shard lock at a time, the aux_maps lock of
\* that shard; no thread holds a shard lock while it waits for another; and
\* every command that was dispatched completes.
C37_NeverBlocks == []C37_LockOrder /\ Completes

============================================================================
